---- MODULE Spec2Model ----
(***************************************************************************)
(* A model of three parts of the JWM window manager:                       *)
(*   background.c  the per-desktop background list and its activation,     *)
(*   icon.c        the icon hash table, the loaders and GetBestImage,      *)
(*   status.c      the move/resize status window.                          *)
(* C strings are sequences of one-character strings; Ord gives the byte    *)
(* of a character where the code computes with it (GetHash).  Pointers are *)
(* positive node numbers and NULL is 0.                                    *)
(***************************************************************************)
EXTENDS Integers, Sequences, FiniteSets, TLC

NULL == 0
\* A char* that is NULL, for the string arguments that may be.
NullStr == <<"NULL">>
NullType == "(NULL)"

(***************************************************************************)
(* Bounds of the model.                                                    *)
(***************************************************************************)
MaxBackgrounds == 2
MaxDesktop == 0
MaxVariants == 3
MaxDim == 2
MaxIcons == 3
MaxPaths == 2
MaxClients == 1
MaxScale == 3
MaxServed == 3
MaxWords == 4
MaxPos == 2

VARIABLES
  bgPhase,            \* where the window manager is in its life cycle
  bgNodes,            \* the allocated BackgroundNodes, by node number
  backgrounds,        \* static BackgroundNode *backgrounds (head of the list)
  defaultBackground,  \* static BackgroundNode *defaultBackground
  lastBackground,     \* static BackgroundNode *lastBackground
  pixmapCount,        \* number of pixmaps JXCreatePixmap has handed out
  bgOp,               \* the last background operation and what it resolved
  bgCalls,            \* the external calls the last operation issued, in order
  bgPrev,             \* the operation before the last one (summary)
  gbImages,           \* GetBestImage: icon->images, in list order
  gbWidth,            \* GetBestImage: rwidth
  gbHeight,           \* GetBestImage: rheight
  gbBest,             \* GetBestImage: the position of the image returned
  iconPhase,          \* where the icon subsystem is in its life cycle
  iconNodes,          \* the IconNodes allocated so far, by node number
  iconHash,           \* static IconNode **iconHash
  iconPaths,          \* static IconPathNode *iconPaths, as the list of paths
  clientIcon,         \* np->icon of every client
  iconOp,             \* the last icon operation, its arguments and result
  persisted,          \* the <<name, icon>> pairs persisted loads have returned
  szImage,            \* scaled size: iconImage->width and ->height
  szAspect,           \* scaled size: icon->preserveAspect
  szWidth,            \* scaled size: rwidth as passed
  szHeight,           \* scaled size: rheight as passed
  szSize,             \* scaled size: <<nwidth, nheight>> as computed
  siImage,            \* renderings: iconImage->width, ->height and ->bitmap
  siAspect,           \* renderings: icon->preserveAspect
  siRender,           \* renderings: haveRender (FALSE also without USE_XRENDER)
  siNodes,            \* renderings: the ScaledIconNodes allocated, by number
  siHead,             \* renderings: iconImage->nodes
  siPixmaps,          \* renderings: number of pixmaps JXCreatePixmap handed out
  siOp,               \* renderings: the last request and what it returned
  siServed,           \* renderings: the <<key, node>> pairs of the requests
  biInput,            \* CreateIconFromBinary: the words of input
  biOut,              \* CreateIconFromBinary: what the call read and made
  statusWindow,       \* static Window statusWindow (None: no window)
  statusWindowHeight, \* static unsigned int statusWindowHeight
  statusWindowWidth,  \* static unsigned int statusWindowWidth
  statusWindowX,      \* static int statusWindowX
  statusWindowY,      \* static int statusWindowY
  moveStatusType,     \* static StatusWindowType moveStatusType
  resizeStatusType,   \* static StatusWindowType resizeStatusType
  stActive,           \* status: the interactive operation in progress
  stPlace,            \* status: where the X server has the status window
  stOp,               \* status: the last status operation and its calls
  slImage,            \* scaling loop: iconImage->width and ->height
  slSize,             \* scaling loop: nwidth and nheight
  slOut               \* scaling loop: the source column and row of each pixel

bgVars == <<bgPhase, bgNodes, backgrounds, defaultBackground, lastBackground,
            pixmapCount, bgOp, bgCalls, bgPrev>>

gbVars == <<gbImages, gbWidth, gbHeight, gbBest>>

iconVars == <<iconPhase, iconNodes, iconHash, iconPaths, clientIcon, iconOp,
              persisted>>

szVars == <<szImage, szAspect, szWidth, szHeight, szSize>>

siVars == <<siImage, siAspect, siRender, siNodes, siHead, siPixmaps, siOp,
            siServed>>

\* What the operations of one part leave alone: the other parts.
biVars == <<biInput, biOut>>

stVars == <<statusWindow, statusWindowHeight, statusWindowWidth,
            statusWindowX, statusWindowY, moveStatusType, resizeStatusType,
            stActive, stPlace, stOp>>

slVars == <<slImage, slSize, slOut>>

notBg == <<gbVars, iconVars, szVars, siVars, biVars, stVars, slVars>>
notGb == <<bgVars, iconVars, szVars, siVars, biVars, stVars, slVars>>
notIcon == <<bgVars, gbVars, szVars, siVars, biVars, stVars, slVars>>
notSz == <<bgVars, gbVars, iconVars, siVars, biVars, stVars, slVars>>
notSi == <<bgVars, gbVars, iconVars, szVars, biVars, stVars, slVars>>
notBi == <<bgVars, gbVars, iconVars, szVars, siVars, stVars, slVars>>
notSt == <<bgVars, gbVars, iconVars, szVars, siVars, biVars, slVars>>
notSl == <<bgVars, gbVars, iconVars, szVars, siVars, biVars, stVars>>

(***************************************************************************)
(* background.c                                                            *)
(***************************************************************************)
BACKGROUND_SOLID == "BACKGROUND_SOLID"
BACKGROUND_GRADIENT == "BACKGROUND_GRADIENT"
BACKGROUND_COMMAND == "BACKGROUND_COMMAND"
BACKGROUND_IMAGE == "BACKGROUND_IMAGE"

\* X11's None, and the content of a field no code has assigned yet.
None == 0
Uninit == -1

\* The value strings the configuration may give ("red", "a:b"), the type
\* strings (NULL, the four known ones and an unknown one) and the desktops
\* a descriptor may name (-1 is the default).
BgValues == { <<"r", "e", "d">>, <<"a", ":", "b">> }
BgTypeStrings == { NullType, "solid", "gradient", "command", "image", "tiled" }
BgDesktops == -1 .. MaxDesktop
\* The desktops LoadBackground is called with: one more than are configured.
ActiveDesktops == 0 .. (MaxDesktop + 1)

\* strchr(s, c) != NULL
HasChar(s, c) == \E i \in 1 .. Len(s) : s[i] = c

\* The parse with an unknown type string taken as solid.
ParseBgType_SolidFallback(type) ==
  IF type = "gradient" THEN BACKGROUND_GRADIENT
  ELSE IF type = "command" THEN BACKGROUND_COMMAND
  ELSE IF type = "image" THEN BACKGROUND_IMAGE
  ELSE BACKGROUND_SOLID

\* The parse of the type string in SetBackground: the enum value, or
\* "invalid" where the function warns and returns.
ParseBgType(type) ==
  IF type = NullType THEN BACKGROUND_SOLID
  ELSE IF type = "solid" THEN BACKGROUND_SOLID
  ELSE IF type = "gradient" THEN BACKGROUND_GRADIENT
  ELSE IF type = "command" THEN BACKGROUND_COMMAND
  ELSE IF type = "image" THEN BACKGROUND_IMAGE
  ELSE "invalid"

BgSummary == [op |-> bgOp.op, desktop |-> bgOp.desktop,
              attrs |-> Len(SelectSeq(bgCalls,
                          LAMBDA c : c[1] = "JXChangeWindowAttributes")),
              runs |-> Len(SelectSeq(bgCalls, LAMBDA c : c[1] = "RunCommand"))]

NoBgOp == [op |-> "none", desktop |-> 0, bp |-> NULL, last |-> NULL,
           type |-> NullType, value |-> NullStr, head |-> NULL, count |-> 0]

InitializeBackgrounds ==
  /\ bgPhase = "destroyed"
  /\ bgPhase' = "config"
  /\ backgrounds' = NULL
  /\ defaultBackground' = NULL
  /\ lastBackground' = NULL
  /\ bgOp' = [NoBgOp EXCEPT !.op = "InitializeBackgrounds"]
  /\ bgCalls' = << >>
  /\ bgPrev' = BgSummary
  /\ UNCHANGED <<bgNodes, pixmapCount, notBg>>

\* SetBackground(desktop, type, value); type and value may be NULL.
SetBackground(desktop, type, value) ==
  /\ bgPhase = "config"
  /\ Len(bgNodes) < MaxBackgrounds
  /\ bgOp' = [NoBgOp EXCEPT !.op = "SetBackground", !.desktop = desktop,
                            !.type = type, !.value = value,
                            !.head = backgrounds, !.count = Len(bgNodes)]
  /\ bgPrev' = BgSummary
  /\ IF value = NullStr
     THEN /\ bgCalls' = << <<"Warning", "no value specified for background">> >>
          /\ UNCHANGED <<bgNodes, backgrounds>>
     ELSE IF ParseBgType(type) = "invalid"
     THEN /\ bgCalls' = << <<"Warning", "invalid background type">> >>
          /\ UNCHANGED <<bgNodes, backgrounds>>
     ELSE /\ bgNodes' = Append(bgNodes,
                 [desktop |-> desktop, type |-> ParseBgType(type),
                  value |-> value, pixel |-> Uninit, pixmap |-> Uninit,
                  next |-> backgrounds])
          /\ backgrounds' = Len(bgNodes) + 1
          /\ bgCalls' = << >>
  /\ UNCHANGED <<bgPhase, defaultBackground, lastBackground, pixmapCount, notBg>>

\* ParseColor is external: the pixel of a colour name is its length here.
ParseColor(value) == Len(value)

\* One iteration of the loop of StartupBackgrounds on node bp: the node as
\* materialised, the number of pixmaps created so far and the calls made.
\* found: whether LoadNamedIcon finds the image (it is an external lookup).
StartupNode(node, count, found) ==
  IF node.type = BACKGROUND_SOLID
  THEN [node |-> [node EXCEPT !.pixel = ParseColor(node.value)],
        count |-> count, calls |-> << >>]
  ELSE IF node.type = BACKGROUND_GRADIENT
  THEN IF ~HasChar(node.value, ":")
       THEN [node |-> [node EXCEPT !.pixmap = None], count |-> count,
             calls |-> << >>]
       ELSE [node |-> [node EXCEPT !.pixmap = count + 1], count |-> count + 1,
             calls |-> << <<"JXCreatePixmap", count + 1>> >>]
  ELSE IF node.type = BACKGROUND_IMAGE
  THEN IF ~found
       THEN [node |-> [node EXCEPT !.pixmap = None], count |-> count,
             calls |-> << <<"Warning", "background image not found">> >>]
       ELSE [node |-> [node EXCEPT !.pixmap = count + 1], count |-> count + 1,
             calls |-> << <<"JXCreatePixmap", count + 1>> >>]
  ELSE [node |-> node, count |-> count, calls |-> << >>]

\* The loop of StartupBackgrounds over the list from bp on.
RECURSIVE StartupLoop(_, _, _, _, _, _)
StartupLoop(nodes, bp, def, count, calls, found) ==
  IF bp = NULL
  THEN [nodes |-> nodes, def |-> def, count |-> count, calls |-> calls]
  ELSE LET r == StartupNode(nodes[bp], count, bp \in found)
       IN StartupLoop([nodes EXCEPT ![bp] = r.node], nodes[bp].next,
                      IF nodes[bp].desktop = -1 THEN bp ELSE def,
                      r.count, calls \o r.calls, found)

StartupBackgrounds ==
  /\ bgPhase = "config"
  /\ \E found \in SUBSET (1 .. Len(bgNodes)) :
       LET r == StartupLoop(bgNodes, backgrounds, defaultBackground,
                            pixmapCount, << >>, found)
       IN /\ bgNodes' = r.nodes
          /\ defaultBackground' = r.def
          /\ pixmapCount' = r.count
          /\ bgCalls' = r.calls
  /\ bgPhase' = "running"
  /\ bgOp' = [NoBgOp EXCEPT !.op = "StartupBackgrounds"]
  /\ bgPrev' = BgSummary
  /\ UNCHANGED <<backgrounds, lastBackground, notBg>>

\* The search of LoadBackground: the first node of the list for the desktop,
\* or NULL.
RECURSIVE FindBackground(_, _, _)
FindBackground(nodes, bp, desktop) ==
  IF bp = NULL THEN NULL
  ELSE IF nodes[bp].desktop = desktop THEN bp
  ELSE FindBackground(nodes, nodes[bp].next, desktop)

\* ResolveBackground without the fallback to the default.
ResolveBackground_NoDefault(desktop) ==
  FindBackground(bgNodes, backgrounds, desktop)

\* "Determine the background to load": the search, then the default.
ResolveBackground(desktop) ==
  LET bp == FindBackground(bgNodes, backgrounds, desktop)
  IN IF bp = NULL THEN defaultBackground ELSE bp

\* BackgroundUnchanged comparing the node pointers instead of the contents.
BackgroundUnchanged_Pointer(bp) == lastBackground # NULL /\ bp = lastBackground

\* BackgroundUnchanged comparing the types alone.
BackgroundUnchanged_TypeOnly(bp) ==
  lastBackground # NULL /\ bgNodes[bp].type = bgNodes[lastBackground].type

\* "If the background isn't changing, don't do anything."
BackgroundUnchanged(bp) ==
  /\ lastBackground # NULL
  /\ bgNodes[bp].type = bgNodes[lastBackground].type
  /\ bgNodes[bp].value = bgNodes[lastBackground].value

\* The calls of LoadBackground once it has decided to apply node bp.
ApplyBackground(bp) ==
  IF bgNodes[bp].type = BACKGROUND_SOLID
  THEN << <<"JXChangeWindowAttributes",
            [background_pixmap |-> None,
             background_pixel |-> bgNodes[bp].pixel]>>,
          <<"JXClearWindow", NULL>> >>
  ELSE IF bgNodes[bp].type = BACKGROUND_COMMAND
  THEN << <<"RunCommand", bgNodes[bp].value>> >>
  ELSE << <<"JXChangeWindowAttributes",
            [background_pixmap |-> bgNodes[bp].pixmap]>>,
          <<"JXClearWindow", NULL>> >>

LoadBackground(desktop) ==
  /\ bgPhase = "running"
  /\ LET bp == ResolveBackground(desktop)
     IN /\ bgOp' = [op |-> "LoadBackground", desktop |-> desktop, bp |-> bp,
                    last |-> lastBackground]
        /\ IF bp = NULL
           THEN bgCalls' = << >> /\ UNCHANGED lastBackground
           ELSE IF BackgroundUnchanged(bp)
           THEN bgCalls' = << >> /\ UNCHANGED lastBackground
           ELSE bgCalls' = ApplyBackground(bp) /\ lastBackground' = bp
  /\ bgPrev' = BgSummary
  /\ UNCHANGED <<bgPhase, bgNodes, backgrounds, defaultBackground, pixmapCount,
                 notBg>>

\* The loop of ShutdownBackgrounds: one JXFreePixmap per node that is
\* neither solid nor command.
RECURSIVE BgShutdownLoop(_, _)
BgShutdownLoop(nodes, bp) ==
  IF bp = NULL THEN << >>
  ELSE (IF nodes[bp].type \in {BACKGROUND_SOLID, BACKGROUND_COMMAND}
        THEN << >>
        ELSE << <<"JXFreePixmap", nodes[bp].pixmap>> >>)
       \o BgShutdownLoop(nodes, nodes[bp].next)

ShutdownBackgrounds ==
  /\ bgPhase = "running"
  /\ bgPhase' = "shutdown"
  /\ bgCalls' = BgShutdownLoop(bgNodes, backgrounds)
  /\ bgOp' = [NoBgOp EXCEPT !.op = "ShutdownBackgrounds"]
  /\ bgPrev' = BgSummary
  /\ UNCHANGED <<bgNodes, backgrounds, defaultBackground, lastBackground,
                 pixmapCount, notBg>>

\* DestroyBackgrounds releases every node; the next cycle allocates afresh.
DestroyBackgrounds ==
  /\ bgPhase = "shutdown"
  /\ bgPhase' = "destroyed"
  /\ bgNodes' = << >>
  /\ backgrounds' = NULL
  /\ pixmapCount' = 0
  /\ bgCalls' = << >>
  /\ bgOp' = [NoBgOp EXCEPT !.op = "DestroyBackgrounds"]
  /\ bgPrev' = BgSummary
  /\ UNCHANGED <<defaultBackground, lastBackground, notBg>>

BgInit ==
  /\ bgPhase = "config"
  /\ bgNodes = << >>
  /\ backgrounds = NULL
  /\ defaultBackground = NULL
  /\ lastBackground = NULL
  /\ pixmapCount = 0
  /\ bgOp = NoBgOp
  /\ bgCalls = << >>
  /\ bgPrev = [op |-> "none", desktop |-> 0, attrs |-> 0, runs |-> 0]

BgNext ==
  \/ InitializeBackgrounds
  \/ \E d \in BgDesktops, t \in BgTypeStrings, v \in BgValues \cup {NullStr} :
       SetBackground(d, t, v)
  \/ StartupBackgrounds
  \/ \E d \in ActiveDesktops : LoadBackground(d)
  \/ ShutdownBackgrounds
  \/ DestroyBackgrounds

(***************************************************************************)
(* The parts of the state a specification does not use stay as they are.   *)
(***************************************************************************)
BgIdle ==
  /\ bgPhase = "destroyed"
  /\ bgNodes = << >>
  /\ backgrounds = NULL
  /\ defaultBackground = NULL
  /\ lastBackground = NULL
  /\ pixmapCount = 0
  /\ bgOp = NoBgOp
  /\ bgCalls = << >>
  /\ bgPrev = [op |-> "none", desktop |-> 0, attrs |-> 0, runs |-> 0]

(***************************************************************************)
(* icon.c: GetBestImage.  An image list is the sequence of the ImageNodes  *)
(* of icon->images, each with its width and height; an ImageNode is named  *)
(* by its position in the list.                                            *)
(***************************************************************************)
Min(a, b) == IF a < b THEN a ELSE b
Max(a, b) == IF a > b THEN a ELSE b

\* best_overlap / other_overlap of one image, as the loop body computes it.
Overlap(img, rwidth, rheight) ==
  IF rwidth = 0 /\ rheight = 0 THEN 0
  ELSE IF rwidth = 0 THEN Min(img.height, rheight)
  ELSE IF rheight = 0 THEN Min(img.width, rwidth)
  ELSE Min(img.width, rwidth) * Min(img.height, rheight)

\* ReplacesBest looking at the overlap alone.
ReplacesBest_OverlapOnly(best, other, rwidth, rheight) ==
  Overlap(other, rwidth, rheight) > Overlap(best, rwidth, rheight)

\* ReplacesBest preferring the larger area on equal overlap.
ReplacesBest_LargerArea(best, other, rwidth, rheight) ==
  \/ Overlap(other, rwidth, rheight) > Overlap(best, rwidth, rheight)
  \/ /\ Overlap(other, rwidth, rheight) = Overlap(best, rwidth, rheight)
     /\ other.width * other.height > best.width * best.height

\* ReplacesBest taking the later image on equal overlap and equal area.
ReplacesBest_LastWins(best, other, rwidth, rheight) ==
  \/ Overlap(other, rwidth, rheight) > Overlap(best, rwidth, rheight)
  \/ /\ Overlap(other, rwidth, rheight) = Overlap(best, rwidth, rheight)
     /\ other.width * other.height <= best.width * best.height

\* Whether the loop body assigns best = ip.
ReplacesBest(best, other, rwidth, rheight) ==
  \/ Overlap(other, rwidth, rheight) > Overlap(best, rwidth, rheight)
  \/ /\ Overlap(other, rwidth, rheight) = Overlap(best, rwidth, rheight)
     /\ other.width * other.height < best.width * best.height

\* The while loop, with best and ip as positions in the list.
RECURSIVE BestImageLoop(_, _, _, _, _)
BestImageLoop(images, best, ip, rwidth, rheight) ==
  IF ip > Len(images) THEN best
  ELSE BestImageLoop(images,
         IF ReplacesBest(images[best], images[ip], rwidth, rheight)
         THEN ip ELSE best,
         ip + 1, rwidth, rheight)

\* GetBestImage(icon, rwidth, rheight) on an icon with at least one image.
GetBestImage(images, rwidth, rheight) ==
  BestImageLoop(images, 1, 2, rwidth, rheight)

ImageSizes == [width : 1 .. MaxDim, height : 1 .. MaxDim]
ImageLists == UNION { [1 .. n -> ImageSizes] : n \in 1 .. MaxVariants }

GbInit ==
  /\ gbImages \in ImageLists
  /\ gbWidth \in 0 .. (MaxDim + 1)
  /\ gbHeight \in 0 .. (MaxDim + 1)
  /\ gbBest = NULL

CallGetBestImage ==
  /\ gbBest = NULL
  /\ gbBest' = GetBestImage(gbImages, gbWidth, gbHeight)
  /\ UNCHANGED <<gbImages, gbWidth, gbHeight, notGb>>

GbNext == CallGetBestImage

(***************************************************************************)
(* icon.c: the icon hash table.                                            *)
(***************************************************************************)
HASH_SIZE == 128
HALF_MODULUS == 65536

\* &emptyIcon: the sentinel IconNode, which is no node of the heap.
emptyIcon == -1

\* (unsigned int)str[x] of the characters the model's strings are made of.
Ord(c) ==
  CASE c = "." -> 46 [] c = "/" -> 47 [] c = "B" -> 66 [] c = "E" -> 69
    [] c = "G" -> 71 [] c = "J" -> 74 [] c = "M" -> 77 [] c = "N" -> 78
    [] c = "P" -> 80 [] c = "S" -> 83 [] c = "V" -> 86 [] c = "X" -> 88
    [] c = "a" -> 97 [] c = "b" -> 98 [] c = "c" -> 99 [] c = "d" -> 100
    [] c = "e" -> 101 [] c = "f" -> 102 [] c = "g" -> 103 [] c = "j" -> 106
    [] c = "l" -> 108 [] c = "m" -> 109 [] c = "n" -> 110 [] c = "p" -> 112
    [] c = "q" -> 113 [] c = "s" -> 115 [] c = "t" -> 116 [] c = "u" -> 117
    [] c = "v" -> 118 [] c = "x" -> 120

\* a ^ b for an unsigned a and a byte b: bit by bit over the low 8 bits.
XorBit(a, b, weight) ==
  weight * ((((a \div weight) % 2) + ((b \div weight) % 2)) % 2)
BitXor(a, b) ==
  (a - (a % 256))
    + XorBit(a, b, 1) + XorBit(a, b, 2) + XorBit(a, b, 4) + XorBit(a, b, 8)
    + XorBit(a, b, 16) + XorBit(a, b, 32) + XorBit(a, b, 64)
    + XorBit(a, b, 128)

\* The strings of the model.  The files that may exist; the paths of the
\* configuration; the names asked for (the empty name, a bare name, absolute
\* file names); the instance names of the windows.
IconFiles ==
  { <<"/", "p", "/", "p">>, <<"/", "q", "/", "p", ".", "p", "n", "g">>,
    <<"/", "c", "l">> }
PathInputs == { NullStr, <<"/", "p">>, <<"/", "q", "/">> }
NameInputs == { << >>, <<"p">>, <<"/", "c", "l">> }
FileNameInputs == { << >> } \cup IconFiles
InstanceNames == { NullStr, << >>, <<"/", "c", "l">> }
DefaultName == <<"d", "e", "f", "a", "u", "l", "t">>

\* const char *ICON_EXTENSIONS[] of a build with USE_PNG and USE_XPM (and
\* without USE_RSVG, USE_JPEG and USE_XBM, whose entries follow the same
\* pattern).
ICON_EXTENSIONS ==
  << << >>,
     <<".", "p", "n", "g">>, <<".", "P", "N", "G">>,
     <<".", "x", "p", "m">>, <<".", "X", "P", "M">> >>
EXTENSION_COUNT == Len(ICON_EXTENSIONS)

\* Trim and ExpandPath are external; on the paths of the model (no blanks,
\* no variables) they change nothing.  What AddIconPath does itself is to
\* append the separator.
NormalizePath(path) ==
  IF path[Len(path)] # "/" THEN Append(path, "/") ELSE path

\* Every string GetHash is given: the names above and the file names
\* LoadNamedIconHelper builds of them.
HashedStrings ==
  { NullStr, DefaultName } \cup NameInputs \cup FileNameInputs
    \cup InstanceNames
    \cup { NormalizePath(path) \o name \o ICON_EXTENSIONS[i] :
             path \in PathInputs \ { NullStr },
             name \in { n \in NameInputs : n # << >> /\ n[1] # "/" },
             i \in 1 .. EXTENSION_COUNT }

\* The loop of GetHash from character x on (x counts from 1 here).  The
\* unsigned int hash is kept as its two 16-bit halves <<high, low>>, so
\* that hash + (hash << 5) wraps at 32 bits as it does in C; the character
\* is xor-ed into the low half.
RECURSIVE HashLoop(_, _, _)
HashLoop(str, x, hash) ==
  IF x > Len(str) THEN hash
  ELSE LET low == hash[2] * 33
           high == hash[1] * 33 + (low \div HALF_MODULUS)
       IN HashLoop(str, x + 1,
                   << high % HALF_MODULUS,
                      BitXor(low % HALF_MODULUS, Ord(str[x])) >>)

\* GetHash taking the bucket from the first character alone.
GetHash_FirstChar(str) ==
  IF str = NullStr \/ str = << >> THEN 0 ELSE Ord(str[1]) % HASH_SIZE

\* The body of GetHash; str may be NULL.  hash & (HASH_SIZE - 1) is the low
\* half modulo HASH_SIZE, a power of two.
HashValue(str) ==
  IF str = NullStr THEN 0 ELSE HashLoop(str, 1, <<0, 0>>)[2] % HASH_SIZE

\* GetHash(str), computed once for each string.
HashTable == [str \in HashedStrings |-> HashValue(str)]
GetHash(str) == HashTable[str]

\* The heap the icon functions work on: the nodes and the bucket heads.
IconHeap == [nodes |-> iconNodes, hash |-> iconHash]

\* icon->name, also of the sentinel (which memset left without a name).
IconName(h, icon) ==
  IF icon = emptyIcon THEN NullStr ELSE h.nodes[icon].name

\* CreateIcon(): the heap with the new node, whose number is Len(nodes).
CreateIcon(h) ==
  [h EXCEPT !.nodes = Append(h.nodes,
     [name |-> NullStr, images |-> << >>, next |-> NULL, prev |-> NULL,
      preserveAspect |-> 1, freed |-> FALSE])]

\* InsertIcon linking the node in without setting the old head's prev.
InsertIcon_NoPrev(h, icon) ==
  LET index == GetHash(h.nodes[icon].name)
      head == h.hash[index]
  IN [nodes |-> [h.nodes EXCEPT ![icon].prev = NULL, ![icon].next = head],
      hash |-> [h.hash EXCEPT ![index] = icon]]

\* InsertIcon(icon)
InsertIcon(h, icon) ==
  LET index == GetHash(h.nodes[icon].name)
      head == h.hash[index]
      n1 == [h.nodes EXCEPT ![icon].prev = NULL]
      n2 == IF head # NULL THEN [n1 EXCEPT ![head].prev = icon] ELSE n1
  IN [nodes |-> [n2 EXCEPT ![icon].next = head],
      hash |-> [h.hash EXCEPT ![index] = icon]]

\* The while loop of FindIcon from node icon on.
RECURSIVE FindIconFrom(_, _, _)
FindIconFrom(h, icon, name) ==
  IF icon = NULL THEN NULL
  ELSE IF h.nodes[icon].name = name THEN icon
  ELSE FindIconFrom(h, h.nodes[icon].next, name)

\* FindIcon that never finds anything.
FindIcon_Miss(h, name) == NULL

\* FindIcon(name)
FindIcon(h, name) == FindIconFrom(h, h.hash[GetHash(name)], name)

\* What is left of a node Release has freed: a number that is never handed
\* out again, and the name it had for the record.
Released(node) ==
  [name |-> node.name, images |-> << >>, next |-> NULL, prev |-> NULL,
   preserveAspect |-> 1, freed |-> TRUE]

\* DoDestroyIcon(index, icon): the heap afterwards.
DoDestroyIcon(h, index, icon) ==
  IF icon = NULL \/ icon = emptyIcon THEN h
  ELSE LET node == h.nodes[icon]
           n1 == [h.nodes EXCEPT ![icon] = Released(node)]
           n2 == IF node.prev # NULL
                 THEN [n1 EXCEPT ![node.prev].next = node.next] ELSE n1
           hash2 == IF node.prev # NULL THEN h.hash
                    ELSE [h.hash EXCEPT ![index] = node.next]
           n3 == IF node.next # NULL
                 THEN [n2 EXCEPT ![node.next].prev = node.prev] ELSE n2
       IN [nodes |-> n3, hash |-> hash2]

\* DestroyIcon destroying the named icons, the condition inverted.
DestroyIcon_Named(h, icon) ==
  IF icon # NULL /\ IconName(h, icon) # NullStr
  THEN DoDestroyIcon(h, GetHash(IconName(h, icon)), icon)
  ELSE h

\* DestroyIcon(icon): the heap afterwards.
DestroyIcon(h, icon) ==
  IF icon # NULL /\ IconName(h, icon) = NullStr
  THEN DoDestroyIcon(h, GetHash(IconName(h, icon)), icon)
  ELSE h

\* The nodes an operation has freed, from the heaps before and after it.
FreedBetween(h1, h2) ==
  { i \in 1 .. Len(h1.nodes) : ~h1.nodes[i].freed /\ h2.nodes[i].freed }

(***************************************************************************)
(* icon.c: the loaders.  Every loader yields the heap afterwards and the   *)
(* icon it returns.  The image store (LoadImage, LoadImageFromData,        *)
(* LoadImageFromDrawable) is external: a call names the set of files that  *)
(* decode at the time, and a decoded file has one image.                   *)
(***************************************************************************)
\* The image list LoadImage makes of a file.
DecodedImages(fileName) ==
  << [width |-> IF HasChar(fileName, ".") THEN 2 ELSE 1, height |-> 1,
      bitmap |-> ~HasChar(fileName, "."), nodes |-> << >>] >>
DefaultImages == << [width |-> 2, height |-> 2, bitmap |-> FALSE,
                     nodes |-> << >>] >>
DrawableImages == << [width |-> 1, height |-> 2, bitmap |-> FALSE,
                      nodes |-> << >>] >>

\* CreateIconFromFile inserting the icon whatever save is.
CreateIconFromFile_AlwaysSave(h, fileName, save, preserveAspect, fs) ==
  LET found == FindIcon(h, fileName)
  IN IF found # NULL
     THEN [heap |-> h, result |-> found, outcome |-> "cached"]
     ELSE IF fileName \notin fs
     THEN [heap |-> h, result |-> NULL, outcome |-> "failed"]
     ELSE LET h1 == CreateIcon(h)
              id == Len(h1.nodes)
              h2 == [h1 EXCEPT !.nodes[id].preserveAspect = preserveAspect,
                               !.nodes[id].images = DecodedImages(fileName),
                               !.nodes[id].name = fileName]
          IN [heap |-> InsertIcon(h2, id), result |-> id,
              outcome |-> "decoded"]

\* CreateIconFromFile(fileName, save, preserveAspect); fileName is not NULL
\* in any call of this file.
CreateIconFromFile(h, fileName, save, preserveAspect, fs) ==
  LET found == FindIcon(h, fileName)
  IN IF found # NULL
     THEN [heap |-> h, result |-> found, outcome |-> "cached"]
     ELSE IF fileName \notin fs
     THEN [heap |-> h, result |-> NULL, outcome |-> "failed"]
     ELSE LET h1 == CreateIcon(h)
              id == Len(h1.nodes)
              h2 == [h1 EXCEPT !.nodes[id].preserveAspect = preserveAspect,
                               !.nodes[id].images = DecodedImages(fileName)]
          IN IF save # 0
             THEN [heap |-> InsertIcon([h2 EXCEPT !.nodes[id].name = fileName],
                                       id),
                   result |-> id, outcome |-> "decoded"]
             ELSE [heap |-> h2, result |-> id, outcome |-> "decoded"]

\* The for loop of LoadNamedIconHelper from extension i on; tried collects
\* the file names given to CreateIconFromFile, each with what came of it.
\* A call that returns NULL has left the heap as it was.
RECURSIVE HelperLoop(_, _, _, _, _, _, _, _)
HelperLoop(h, name, path, save, preserveAspect, fs, i, tried) ==
  IF i > EXTENSION_COUNT
  THEN [heap |-> h, result |-> NULL, tried |-> tried]
  ELSE LET temp == path \o name \o ICON_EXTENSIONS[i]
           r == CreateIconFromFile(h, temp, save, preserveAspect, fs)
           t == Append(tried, <<temp, r.outcome>>)
       IN IF r.result # NULL
          THEN [heap |-> r.heap, result |-> r.result, tried |-> t]
          ELSE HelperLoop(h, name, path, save, preserveAspect, fs, i + 1, t)

\* LoadNamedIconHelper(name, path, save, preserveAspect)
LoadNamedIconHelper(h, name, path, save, preserveAspect, fs, tried) ==
  HelperLoop(h, name, path, save, preserveAspect, fs, 1, tried)

\* The for loop of LoadNamedIcon over iconPaths from position ip on.
RECURSIVE PathLoop(_, _, _, _, _, _, _, _)
PathLoop(h, name, paths, ip, save, preserveAspect, fs, tried) ==
  IF ip > Len(paths)
  THEN [heap |-> h, result |-> NULL, tried |-> tried]
  ELSE LET r == LoadNamedIconHelper(h, name, paths[ip], save, preserveAspect,
                                    fs, tried)
       IN IF r.result # NULL THEN r
          ELSE PathLoop(h, name, paths, ip + 1, save, preserveAspect, fs,
                        r.tried)

\* LoadNamedIcon walking iconPaths from its tail to its head.
LoadNamedIcon_Reversed(h, name, paths, save, preserveAspect, fs) ==
  IF name = << >>
  THEN [heap |-> h, result |-> emptyIcon, tried |-> << >>]
  ELSE IF name[1] = "/"
  THEN LET r == CreateIconFromFile(h, name, save, preserveAspect, fs)
       IN [heap |-> r.heap, result |-> r.result,
           tried |-> << <<name, r.outcome>> >>]
  ELSE PathLoop(h, name, [i \in 1 .. Len(paths) |-> paths[Len(paths) + 1 - i]],
                1, save, preserveAspect, fs, << >>)

\* LoadNamedIcon(name, save, preserveAspect)
LoadNamedIcon(h, name, paths, save, preserveAspect, fs) ==
  IF name = << >>
  THEN [heap |-> h, result |-> emptyIcon, tried |-> << >>]
  ELSE IF name[1] = "/"
  THEN LET r == CreateIconFromFile(h, name, save, preserveAspect, fs)
       IN [heap |-> r.heap, result |-> r.result,
           tried |-> << <<name, r.outcome>> >>]
  ELSE PathLoop(h, name, paths, 1, save, preserveAspect, fs, << >>)

\* CreateIconFromData(name, data); decodes: whether LoadImageFromData
\* makes an image of the data.
CreateIconFromData(h, name, decodes) ==
  LET found == FindIcon(h, name)
  IN IF found # NULL THEN [heap |-> h, result |-> found]
     ELSE IF ~decodes THEN [heap |-> h, result |-> NULL]
     ELSE LET h1 == CreateIcon(h)
              id == Len(h1.nodes)
              h2 == [h1 EXCEPT !.nodes[id].name = name,
                               !.nodes[id].images = DefaultImages]
          IN [heap |-> InsertIcon(h2, id), result |-> id]

\* GetDefaultIcon()
GetDefaultIcon(h, decodes) == CreateIconFromData(h, DefaultName, decodes)

\* CreateIconFromDrawable(d, mask); decodes: whether LoadImageFromDrawable
\* makes an image of the drawable.
CreateIconFromDrawable(h, decodes) ==
  IF ~decodes THEN [heap |-> h, result |-> NULL]
  ELSE LET h1 == CreateIcon(h)
           id == Len(h1.nodes)
       IN [heap |-> [h1 EXCEPT !.nodes[id].images = DrawableImages],
           result |-> id]

\* unsigned int arithmetic on words below 2^31.  A product or a sum is
\* kept as its two 16-bit halves <<high, low>>, so that it wraps at 32 bits
\* as it does in C; the low half of a is split once more to keep every
\* intermediate product small.
Mul32(a, b) ==
  LET a0 == a % HALF_MODULUS
      a1 == a \div HALF_MODULUS
      b0 == b % HALF_MODULUS
      b1 == b \div HALF_MODULUS
      x == (a0 % 256) * b0
      y == (a0 \div 256) * b0
      s == ((y % 256) * 256) + x
      carry == (y \div 256) + (s \div HALF_MODULUS)
  IN << (carry + ((a1 * b0) % HALF_MODULUS) + ((a0 * b1) % HALF_MODULUS))
          % HALF_MODULUS,
        s % HALF_MODULUS >>
Add32(p, k) ==
  << (p[1] + ((p[2] + k) \div HALF_MODULUS)) % HALF_MODULUS,
     (p[2] + k) % HALF_MODULUS >>
Greater32(p, n) ==
  \/ p[1] > n \div HALF_MODULUS
  \/ p[1] = n \div HALF_MODULUS /\ p[2] > n % HALF_MODULUS

\* input[i] (i counts from 0 as in the code).  The array has length words:
\* a read at or beyond length reads what lies behind the array, garbage.
BinaryWord(input, length, i, garbage) ==
  IF i < length THEN input[i + 1] ELSE garbage

NoParse == [images |-> << >>, reads |-> {}, entries |-> << >>,
            fault |-> FALSE]

\* The while loop of CreateIconFromBinary from offset on.  out.images is
\* result->images so far, the latest first; out.reads the indices of input
\* read so far; out.entries what became of every entry met.  The for loop
\* over the pixel words runs width * height times (the unsigned product):
\* when that is more than what is left of the array it runs off its end
\* (out.fault), which no build survives.
RECURSIVE BinaryLoop(_, _, _, _, _)
BinaryLoop(input, length, offset, garbage, out) ==
  IF offset >= length THEN out
  ELSE LET width == BinaryWord(input, length, offset, garbage)
           height == BinaryWord(input, length, offset + 1, garbage)
           product == Mul32(width, height)
           header == out.reads \cup { offset, offset + 1 }
           entry == [offset |-> offset, width |-> width, height |-> height,
                     verdict |-> "parsed"]
           image == [width |-> width, height |-> height, bitmap |-> FALSE,
                     nodes |-> << >>]
       IN IF Greater32(Add32(product, 2), length - offset)
          THEN [out EXCEPT !.reads = header,
                           !.entries = Append(out.entries,
                              [entry EXCEPT !.verdict = "too large"])]
          ELSE IF width = 0 \/ height = 0
          THEN [out EXCEPT !.reads = header,
                           !.entries = Append(out.entries,
                              [entry EXCEPT !.verdict = "zero"])]
          ELSE IF Greater32(product, length - (offset + 2))
          THEN [images |-> << image >> \o out.images,
                reads |-> header \cup ((offset + 2) .. Max(length, offset + 2)),
                entries |-> Append(out.entries,
                              [entry EXCEPT !.verdict = "overrun"]),
                fault |-> TRUE]
          ELSE BinaryLoop(input, length, offset + 2 + product[2], garbage,
                 [images |-> << image >> \o out.images,
                  reads |-> header
                    \cup ((offset + 2) .. (offset + 1 + product[2])),
                  entries |-> Append(out.entries, entry),
                  fault |-> out.fault])

\* CreateIconFromBinary creating the icon before it looks at the entries.
CreateIconFromBinary_EagerIcon(h, input, length, garbage) ==
  LET images == BinaryLoop(input, length, 0, garbage, NoParse).images
      h1 == CreateIcon(h)
      id == Len(h1.nodes)
  IN [heap |-> [h1 EXCEPT !.nodes[id].images = images], result |-> id]

\* CreateIconFromBinary(input, length); input is not NULL.
CreateIconFromBinary(h, input, length, garbage) ==
  LET images == BinaryLoop(input, length, 0, garbage, NoParse).images
  IN IF images = << >> THEN [heap |-> h, result |-> NULL]
     ELSE LET h1 == CreateIcon(h)
              id == Len(h1.nodes)
          IN [heap |-> [h1 EXCEPT !.nodes[id].images = images], result |-> id]

(***************************************************************************)
(* icon.c: the operations.                                                 *)
(***************************************************************************)
Clients == 1 .. MaxClients

\* What the callers pass besides names: the window properties (none, a 1x1
\* and a 2x1 image, a 0x0 entry) and the hint pixmaps.
NoProperty == << -1 >>
NetIcons == { NoProperty, <<1, 1, 0, 2, 1, 0, 0>>, <<0, 0>> }
AspectInputs == { 1 }
HintIcons == { "none", "pixmap", "unreadable" }

\* The nodes linked into bucket x, from node icon on.
RECURSIVE ChainFrom(_, _)
ChainFrom(h, icon) ==
  IF icon = NULL THEN << >>
  ELSE <<icon>> \o ChainFrom(h, h.nodes[icon].next)
InHash(h) ==
  UNION { { ChainFrom(h, h.hash[x])[k] :
              k \in 1 .. Len(ChainFrom(h, h.hash[x])) } :
          x \in { y \in 0 .. (HASH_SIZE - 1) : h.hash[y] # NULL } }

\* The files a load of name can come to open: a call's file system is the
\* set of those that decode.
CandidateFiles(name) ==
  IF name = NullStr \/ name = << >> THEN {}
  ELSE IF name[1] = "/" THEN {name} \cap IconFiles
  ELSE { f \in IconFiles :
           \E ip \in 1 .. Len(iconPaths), i \in 1 .. EXTENSION_COUNT :
             f = iconPaths[ip] \o name \o ICON_EXTENSIONS[i] }

NoIconOp == [op |-> "none", name |-> NullStr, save |-> 0, arg |-> NULL,
             result |-> NULL, tried |-> << >>, consulted |-> << >>,
             freed |-> {}, inserted |-> {}, unlinked |-> {}, made |-> 0,
             net |-> NoProperty, hint |-> "none", client |-> 0]

\* The record of an operation that took the heap from h1 to h2.
IconOpOf(op, name, save, arg, result, tried, consulted, h1, h2) ==
  [op |-> op, name |-> name, save |-> save, arg |-> arg, result |-> result,
   tried |-> tried, consulted |-> consulted,
   freed |-> FreedBetween(h1, h2), inserted |-> InHash(h2) \ InHash(h1),
   unlinked |-> InHash(h1) \ InHash(h2),
   made |-> Len(h2.nodes) - Len(h1.nodes),
   net |-> NoProperty, hint |-> "none", client |-> 0]

\* The pairs of persisted once a persisted load has returned icon.
Persist(h, icon) ==
  IF icon = NULL \/ icon = emptyIcon THEN persisted
  ELSE IF h.nodes[icon].name = NullStr THEN persisted
  ELSE persisted \cup { <<h.nodes[icon].name, icon>> }

AddIconPath(path) ==
  /\ iconPhase = "config"
  /\ Len(iconPaths) < MaxPaths
  /\ iconPaths' = IF path = NullStr THEN iconPaths
                  ELSE Append(iconPaths, NormalizePath(path))
  /\ iconOp' = [NoIconOp EXCEPT !.op = "AddIconPath", !.name = path]
  /\ UNCHANGED <<iconPhase, iconNodes, iconHash, clientIcon, persisted, notIcon>>

StartupIcons ==
  /\ iconPhase = "config"
  /\ iconPhase' = "running"
  /\ iconOp' = [NoIconOp EXCEPT !.op = "StartupIcons"]
  /\ UNCHANGED <<iconNodes, iconHash, iconPaths, clientIcon, persisted, notIcon>>

\* A call of LoadNamedIcon(name, save, preserveAspect) from outside icon.c.
CallLoadNamedIcon(name, save, preserveAspect, fs) ==
  /\ iconPhase = "running"
  /\ Len(iconNodes) < MaxIcons
  /\ \E r \in { LoadNamedIcon(IconHeap, name, iconPaths, save, preserveAspect,
                               fs) } :
        /\ iconNodes' = r.heap.nodes
        /\ iconHash' = r.heap.hash
        /\ iconOp' = IconOpOf("LoadNamedIcon", name, save, NULL, r.result,
                              r.tried, << >>, IconHeap, r.heap)
        /\ persisted' = IF save # 0 THEN Persist(r.heap, r.result)
                        ELSE persisted
  /\ UNCHANGED <<iconPhase, iconPaths, clientIcon, notIcon>>

\* A call of DestroyIcon(icon) by the owner of the reference, who drops it.
CallDestroyIcon(icon) ==
  /\ iconPhase = "running"
  /\ icon \in {NULL, emptyIcon}
       \/ (icon \in 1 .. Len(iconNodes) /\ ~iconNodes[icon].freed)
  /\ \E h \in { DestroyIcon(IconHeap, icon) } :
        /\ iconNodes' = h.nodes
        /\ iconHash' = h.hash
        /\ iconOp' = IconOpOf("DestroyIcon", NullStr, 0, icon, NULL, << >>,
                              << >>, IconHeap, h)
        /\ clientIcon' = [np \in Clients |->
                            IF clientIcon[np] \in FreedBetween(IconHeap, h)
                            THEN NULL ELSE clientIcon[np]]
  /\ UNCHANGED <<iconPhase, iconPaths, persisted, notIcon>>

\* LoadIcon(np) after DestroyIcon(np->icon), on heap h: the sources in the
\* order of the function, each consulted only while np->icon is NULL.
\* LoadIcon consulting the hints before the property.
LoadIconSources_HintFirst(h, net, hint, instanceName, fs, decodes) ==
  LET r2 == IF hint = "none" THEN [heap |-> h, result |-> NULL]
            ELSE CreateIconFromDrawable(h, hint = "pixmap")
      r1 == IF net = NoProperty THEN [heap |-> r2.heap, result |-> NULL]
            ELSE CreateIconFromBinary(r2.heap, net, Len(net), 0)
      r3 == IF instanceName = NullStr
            THEN [heap |-> r1.heap, result |-> NULL, tried |-> << >>]
            ELSE LoadNamedIcon(r1.heap, instanceName, iconPaths, 1, 1, fs)
      r4 == GetDefaultIcon(r3.heap, decodes)
  IN IF r2.result # NULL
     THEN [heap |-> r2.heap, result |-> r2.result, tried |-> << >>,
           consulted |-> <<"WMHints">>, named |-> FALSE]
     ELSE IF r1.result # NULL
     THEN [heap |-> r1.heap, result |-> r1.result, tried |-> << >>,
           consulted |-> <<"WMHints", "_NET_WM_ICON">>, named |-> FALSE]
     ELSE IF r3.result # NULL
     THEN [heap |-> r3.heap, result |-> r3.result, tried |-> r3.tried,
           consulted |-> <<"WMHints", "_NET_WM_ICON", "instanceName">>,
           named |-> TRUE]
     ELSE [heap |-> r4.heap, result |-> r4.result, tried |-> r3.tried,
           consulted |-> IF instanceName = NullStr
                         THEN <<"WMHints", "_NET_WM_ICON", "default">>
                         ELSE <<"WMHints", "_NET_WM_ICON", "instanceName",
                                "default">>,
           named |-> TRUE]

\* (The properties of the model's clients are read within their length: no
\* garbage comes into them.)
LoadIconSources(h, net, hint, instanceName, fs, decodes) ==
  LET r1 == IF net = NoProperty THEN [heap |-> h, result |-> NULL]
            ELSE CreateIconFromBinary(h, net, Len(net), 0)
      r2 == IF hint = "none" THEN [heap |-> r1.heap, result |-> NULL]
            ELSE CreateIconFromDrawable(r1.heap, hint = "pixmap")
      r3 == IF instanceName = NullStr
            THEN [heap |-> r2.heap, result |-> NULL, tried |-> << >>]
            ELSE LoadNamedIcon(r2.heap, instanceName, iconPaths, 1, 1, fs)
      r4 == GetDefaultIcon(r3.heap, decodes)
  IN IF r1.result # NULL
     THEN [heap |-> r1.heap, result |-> r1.result, tried |-> << >>,
           consulted |-> <<"_NET_WM_ICON">>, named |-> FALSE]
     ELSE IF r2.result # NULL
     THEN [heap |-> r2.heap, result |-> r2.result, tried |-> << >>,
           consulted |-> <<"_NET_WM_ICON", "WMHints">>, named |-> FALSE]
     ELSE IF r3.result # NULL
     THEN [heap |-> r3.heap, result |-> r3.result, tried |-> r3.tried,
           consulted |-> <<"_NET_WM_ICON", "WMHints", "instanceName">>,
           named |-> TRUE]
     ELSE [heap |-> r4.heap, result |-> r4.result, tried |-> r3.tried,
           consulted |-> IF instanceName = NullStr
                         THEN <<"_NET_WM_ICON", "WMHints", "default">>
                         ELSE <<"_NET_WM_ICON", "WMHints", "instanceName",
                                "default">>,
           named |-> TRUE]

LoadIcon(np, net, hint, instanceName, fs, decodes) ==
  /\ iconPhase = "running"
  /\ Len(iconNodes) < MaxIcons
  /\ \E r \in { LoadIconSources(DestroyIcon(IconHeap, clientIcon[np]), net,
                                 hint, instanceName, fs, decodes) } :
        /\ iconNodes' = r.heap.nodes
        /\ iconHash' = r.heap.hash
        /\ clientIcon' = [clientIcon EXCEPT ![np] = r.result]
        /\ iconOp' = [IconOpOf("LoadIcon", instanceName, 1, clientIcon[np],
                               r.result, r.tried, r.consulted, IconHeap,
                               r.heap)
                        EXCEPT !.net = net, !.hint = hint, !.client = np]
        /\ persisted' = IF r.named THEN Persist(r.heap, r.result)
                        ELSE persisted
  /\ UNCHANGED <<iconPhase, iconPaths, notIcon>>

\* The loops of ShutdownIcons from bucket x on: the for loop steps over the
\* empty buckets to the next bucket y that has a head, and the while loop
\* destroys that head and looks at the bucket again.
RECURSIVE IconShutdownLoop(_, _)
IconShutdownLoop(h, x) ==
  LET rest == { y \in x .. (HASH_SIZE - 1) : h.hash[y] # NULL }
  IN IF rest = {} THEN h
     ELSE LET y == CHOOSE y \in rest : \A z \in rest : y <= z
          IN IconShutdownLoop(DoDestroyIcon(h, y, h.hash[y]), y)

ShutdownIcons ==
  /\ iconPhase = "running"
  /\ iconPhase' = "shutdown"
  /\ \E h \in { IconShutdownLoop(IconHeap, 0) } :
        /\ iconNodes' = h.nodes
        /\ iconHash' = h.hash
        /\ iconOp' = IconOpOf("ShutdownIcons", NullStr, 0, NULL, NULL, << >>,
                              << >>, IconHeap, h)
  /\ UNCHANGED <<iconPaths, clientIcon, persisted, notIcon>>

DestroyIcons ==
  /\ iconPhase = "shutdown"
  /\ iconPhase' = "destroyed"
  /\ iconPaths' = << >>
  /\ iconHash' = << >>
  /\ iconOp' = [NoIconOp EXCEPT !.op = "DestroyIcons"]
  /\ UNCHANGED <<iconNodes, clientIcon, persisted, notIcon>>

\* The window's hints and instance name as far as LoadIcon comes to read
\* them: what it does not read is not enumerated.
HintsRead(net) ==
  IF net # NoProperty
       /\ BinaryLoop(net, Len(net), 0, 0, NoParse).images # << >>
  THEN {"none"} ELSE HintIcons
InstanceNamesRead(net, hint) ==
  IF hint = "pixmap" \/ HintsRead(net) = {"none"}
  THEN {NullStr} ELSE InstanceNames

\* The state InitializeIcons leaves.
IconInit ==
  /\ iconPhase = "config"
  /\ iconNodes = << >>
  /\ iconHash = [x \in 0 .. (HASH_SIZE - 1) |-> NULL]
  /\ iconPaths = << >>
  /\ clientIcon = [np \in Clients |-> NULL]
  /\ iconOp = NoIconOp
  /\ persisted = {}

\* The configuration and the loads by name: no icon is given up before the
\* shutdown.
SearchNext ==
  \/ \E path \in PathInputs : AddIconPath(path)
  \/ StartupIcons
  \/ \E name \in NameInputs, save \in {0, 1}, preserveAspect \in AspectInputs :
       \E fs \in SUBSET CandidateFiles(name) :
         CallLoadNamedIcon(name, save, preserveAspect, fs)
  \/ ShutdownIcons
  \/ DestroyIcons

\* A configuration without icon paths: the loads by file name, the icons
\* of the clients, and the icons given up.
IconNext ==
  \/ StartupIcons
  \/ \E name \in FileNameInputs, save \in {0, 1},
        preserveAspect \in AspectInputs :
       \E fs \in SUBSET CandidateFiles(name) :
         CallLoadNamedIcon(name, save, preserveAspect, fs)
  \/ \E icon \in {NULL, emptyIcon} \cup (1 .. MaxIcons) : CallDestroyIcon(icon)
  \/ \E np \in Clients, net \in NetIcons :
       \E hint \in HintsRead(net) :
         \E instanceName \in InstanceNamesRead(net, hint), decodes \in BOOLEAN :
           \E fs \in SUBSET CandidateFiles(instanceName) :
             LoadIcon(np, net, hint, instanceName, fs, decodes)
  \/ ShutdownIcons
  \/ DestroyIcons

\* The icons of the clients alone, with every combination of property,
\* hints and instance name a window can have.
ClientNext ==
  \/ StartupIcons
  \/ \E np \in Clients, net \in NetIcons, hint \in HintIcons,
        instanceName \in InstanceNames, decodes \in BOOLEAN :
       \E fs \in SUBSET CandidateFiles(instanceName) :
         LoadIcon(np, net, hint, instanceName, fs, decodes)
  \/ ShutdownIcons
  \/ DestroyIcons

(***************************************************************************)
(* icon.c: GetScaledIcon, the size of the rendering.  The ints of the code *)
(* are 32 bits wide; x << 16 is x * FIXED_ONE and x >> 16 is               *)
(* x \div FIXED_ONE, both without overflow for the sizes of the model.     *)
(***************************************************************************)
FIXED_ONE == 65536

\* The size computation without the final clamp to 1.
ScaledSize_NoClamp(width, height, preserveAspect, rwidth0, rheight0) ==
  LET rwidth == IF rwidth0 = 0 THEN width ELSE rwidth0
      rheight == IF rheight0 = 0 THEN height ELSE rheight0
      ratio == (width * FIXED_ONE) \div height
      nwidth1 == Min(rwidth, (rheight * ratio) \div FIXED_ONE)
      nheight1 == Min(rheight, (nwidth1 * FIXED_ONE) \div ratio)
      nwidth2 == (nheight1 * ratio) \div FIXED_ONE
  IN IF preserveAspect # 0
     THEN << nwidth2, nheight1 >>
     ELSE << rwidth, rheight >>

\* <<nwidth, nheight>> as GetScaledIcon computes them for an image of
\* width x height and the request (rwidth0, rheight0).
ScaledSize(width, height, preserveAspect, rwidth0, rheight0) ==
  LET rwidth == IF rwidth0 = 0 THEN width ELSE rwidth0
      rheight == IF rheight0 = 0 THEN height ELSE rheight0
      ratio == (width * FIXED_ONE) \div height
      nwidth1 == Min(rwidth, (rheight * ratio) \div FIXED_ONE)
      nheight1 == Min(rheight, (nwidth1 * FIXED_ONE) \div ratio)
      nwidth2 == (nheight1 * ratio) \div FIXED_ONE
  IN IF preserveAspect # 0
     THEN << Max(1, nwidth2), Max(1, nheight1) >>
     ELSE << Max(1, rwidth), Max(1, rheight) >>

ScaleSizes == [width : 1 .. MaxScale, height : 1 .. MaxScale]

SzInit ==
  /\ szImage \in ScaleSizes
  /\ szAspect \in { 0, 1 }
  /\ szWidth \in 0 .. MaxScale
  /\ szHeight \in 0 .. MaxScale
  /\ szSize = << >>

CallScaledSize ==
  /\ szSize = << >>
  /\ szSize' = ScaledSize(szImage.width, szImage.height, szAspect, szWidth,
                          szHeight)
  /\ UNCHANGED <<szImage, szAspect, szWidth, szHeight, notSz>>

SzNext == CallScaledSize

(***************************************************************************)
(* icon.c: GetScaledIcon, the software scaling loop.  scalex, scaley, srcx *)
(* and srcy are ints of 32 bits.  A shift or a sum that leaves the range   *)
(* of int wraps at 32 bits, which is what the builds of the code do with   *)
(* them; a number is split into its 16-bit halves where the model adds or  *)
(* shifts, so that no intermediate value leaves 32 bits.                   *)
(***************************************************************************)
\* The int that has the 16-bit halves high and low.
Int32(high, low) ==
  ((IF high >= HALF_MODULUS \div 2 THEN high - HALF_MODULUS ELSE high)
     * HALF_MODULUS) + low

\* x << 16
Shl16(x) == Int32(x % HALF_MODULUS, 0)

\* x >> 16 (the arithmetic shift)
Shr16(x) == x \div FIXED_ONE

\* a + b
AddInt(a, b) ==
  LET low == (a % HALF_MODULUS) + (b % HALF_MODULUS)
      high == (a \div HALF_MODULUS) + (b \div HALF_MODULUS)
                + (low \div HALF_MODULUS)
  IN Int32(high % HALF_MODULUS, low % HALF_MODULUS)

\* a / b of C, which rounds towards zero; b is not 0.
DivInt(a, b) ==
  LET n == IF b < 0 THEN -b ELSE b
      q == IF a < 0 /\ a % n # 0 THEN (a \div n) + 1 ELSE a \div n
  IN IF b < 0 THEN -q ELSE q

\* srcx >> 16 (or srcy >> 16) for the destination pixels 0 .. count - 1:
\* the fixed-point offset starts at 0 and grows by scale after each pixel.
RECURSIVE ScaleOffsets(_, _, _)
ScaleOffsets(src, scale, count) ==
  IF count = 0 THEN << >>
  ELSE <<Shr16(src)>> \o ScaleOffsets(AddInt(src, scale), scale, count - 1)

\* The source columns and rows the loop reads for an image of width x
\* height scaled to nwidth x nheight.
ScaleLoop(width, height, nwidth, nheight) ==
  LET scalex == DivInt(Shl16(width), nwidth)
      scaley == DivInt(Shl16(height), nheight)
  IN [columns |-> ScaleOffsets(0, scalex, nwidth),
      rows |-> ScaleOffsets(0, scaley, nheight)]

\* The sizes of the images and of the renderings: the small ones and the
\* first whose << 16 leaves the range of int.
SlImageDims == (1 .. MaxScale) \cup { HALF_MODULUS \div 2 }
SlSizes == [width : 1 .. MaxScale, height : 1 .. MaxScale]
NoScaleOut == [columns |-> << >>, rows |-> << >>]

SlInit ==
  /\ slImage \in [width : SlImageDims, height : SlImageDims]
  /\ slSize \in SlSizes
  /\ slOut = NoScaleOut

CallScaleLoop ==
  /\ slOut = NoScaleOut
  /\ slOut' = ScaleLoop(slImage.width, slImage.height, slSize.width,
                        slSize.height)
  /\ UNCHANGED <<slImage, slSize, notSl>>

SlNext == CallScaleLoop

(***************************************************************************)
(* icon.c: GetScaledIcon, the renderings of one image.  The state it      *)
(* works on is the list iconImage->nodes: the nodes allocated, the head of *)
(* the list and the number of pixmaps created so far.                      *)
(***************************************************************************)
Foregrounds == { 1, 2 }

RenderingList == [nodes |-> siNodes, head |-> siHead, pixmaps |-> siPixmaps]

\* The probe looking at the first node of the list only.
ProbeFrom_HeadOnly(st, np, bitmap, fg, size) ==
  IF np = NULL THEN NULL
  ELSE IF st.nodes[np].imagePicture # None THEN np
  ELSE IF /\ st.nodes[np].width = size[1]
          /\ st.nodes[np].height = size[2]
          /\ (~bitmap \/ st.nodes[np].fg = fg)
  THEN np
  ELSE NULL

\* The for loop over iconImage->nodes from node np on: the node it returns,
\* or NULL when it runs off the list.  A node with an imagePicture is
\* returned whatever its size and foreground.
RECURSIVE ProbeFrom(_, _, _, _, _)
ProbeFrom(st, np, bitmap, fg, size) ==
  IF np = NULL THEN NULL
  ELSE IF st.nodes[np].imagePicture # None THEN np
  ELSE IF /\ st.nodes[np].width = size[1]
          /\ st.nodes[np].height = size[2]
          /\ (~bitmap \/ st.nodes[np].fg = fg)
  THEN np
  ELSE ProbeFrom(st, st.nodes[np].next, bitmap, fg, size)

\* CreateScaledRenderIcon(iconImage, fg) of render.c: one node with a
\* picture handle and no pixmaps, tagged with fg and put in front of
\* iconImage->nodes.
CreateScaledRenderIcon(st, fg) ==
  [st EXCEPT !.nodes = Append(st.nodes,
                 [fg |-> fg, width |-> 0, height |-> 0, next |-> st.head,
                  image |-> None, mask |-> None,
                  imagePicture |-> Len(st.nodes) + 1]),
             !.head = Len(st.nodes) + 1]

\* The node GetScaledIcon makes the old-fashioned way, with its mask and
\* its color pixmap.
CreateScaledNode(st, fg, size) ==
  [st EXCEPT !.nodes = Append(st.nodes,
                 [fg |-> fg, width |-> size[1], height |-> size[2],
                  next |-> st.head,
                  image |-> st.pixmaps + 2, mask |-> st.pixmaps + 1,
                  imagePicture |-> None]),
             !.head = Len(st.nodes) + 1,
             !.pixmaps = st.pixmaps + 2]

\* GetScaledIcon(icon, iconImage, fg, rwidth, rheight): the list afterwards
\* and the node returned.
GetScaledIcon(st, image, preserveAspect, haveRender, fg, rwidth, rheight) ==
  LET size == ScaledSize(image.width, image.height, preserveAspect, rwidth,
                         rheight)
      np == ProbeFrom(st, st.head, image.bitmap, fg, size)
      made == CreateScaledRenderIcon(st, fg)
  IN IF np # NULL
     THEN IF st.nodes[np].imagePicture # None
          THEN [list |-> [st EXCEPT !.nodes[np].width = size[1],
                                    !.nodes[np].height = size[2]],
                result |-> np, size |-> size]
          ELSE [list |-> st, result |-> np, size |-> size]
     ELSE IF haveRender
     THEN [list |-> [made EXCEPT !.nodes[made.head].width = size[1],
                                 !.nodes[made.head].height = size[2]],
           result |-> made.head, size |-> size]
     ELSE [list |-> CreateScaledNode(st, fg, size),
           result |-> Len(st.nodes) + 1, size |-> size]

\* The key of a request: the size computed and, for a bitmap, the
\* foreground.
RenderingKey(image, size, fg) ==
  << size[1], size[2], IF image.bitmap THEN fg ELSE 0 >>

NoScaledOp == [fg |-> 0, rwidth |-> 0, rheight |-> 0, size |-> <<0, 0>>,
               result |-> NULL, repeat |-> FALSE, nodes |-> 0, pixmaps |-> 0]

SiInit ==
  /\ siImage \in [width : 1 .. MaxDim, height : 1 .. MaxDim, bitmap : BOOLEAN]
  /\ siAspect \in { 0, 1 }
  /\ siRender \in BOOLEAN
  /\ siNodes = << >>
  /\ siHead = NULL
  /\ siPixmaps = 0
  /\ siOp = NoScaledOp
  /\ siServed = {}

\* A call of GetScaledIcon(icon, iconImage, fg, rwidth, rheight), as PutIcon
\* makes it.  siOp keeps how many nodes and pixmaps the call has made and
\* whether a request of the same key was served before.
CallGetScaledIcon(fg, rwidth, rheight) ==
  /\ Cardinality(siServed) < MaxServed
  /\ \E r \in { GetScaledIcon(RenderingList, siImage, siAspect, siRender, fg,
                              rwidth, rheight) } :
       /\ siNodes' = r.list.nodes
       /\ siHead' = r.list.head
       /\ siPixmaps' = r.list.pixmaps
       /\ siOp' = [fg |-> fg, rwidth |-> rwidth, rheight |-> rheight,
                   size |-> r.size, result |-> r.result,
                   repeat |-> \E p \in siServed :
                                p[1] = RenderingKey(siImage, r.size, fg),
                   nodes |-> Len(r.list.nodes) - Len(siNodes),
                   pixmaps |-> r.list.pixmaps - siPixmaps]
       /\ siServed' = siServed
            \cup { << RenderingKey(siImage, r.size, fg), r.result >> }
  /\ UNCHANGED <<siImage, siAspect, siRender, notSi>>

SiNext ==
  \E fg \in Foregrounds, rwidth \in 0 .. MaxDim, rheight \in 0 .. MaxDim :
    CallGetScaledIcon(fg, rwidth, rheight)

(***************************************************************************)
(* icon.c: CreateIconFromBinary on every property within the bounds.  The  *)
(* words are those that matter to the arithmetic: small ones, 2^16 (whose  *)
(* square is 2^32) and 2^31 - 1 (whose double is 2^32 - 2).                *)
(***************************************************************************)
BinaryWords == { 0, 1, 2, 65536, 2147483647 }
GarbageWords == { 0, 1, 2147483647 }
BinaryInputs == UNION { [1 .. n -> BinaryWords] : n \in 0 .. MaxWords }

NoBinaryOp == [called |-> FALSE, parse |-> NoParse]

BiInit ==
  /\ biInput \in BinaryInputs
  /\ biOut = NoBinaryOp

\* ReadNetWMIcon's call CreateIconFromBinary(data, count): count is the
\* number of words the property has.
CallCreateIconFromBinary(garbage) ==
  /\ ~biOut.called
  /\ biOut' = [called |-> TRUE,
               parse |-> BinaryLoop(biInput, Len(biInput), 0, garbage,
                                    NoParse)]
  /\ UNCHANGED <<biInput, notBi>>

BiNext == \E garbage \in GarbageWords : CallCreateIconFromBinary(garbage)

(***************************************************************************)
(* status.c: the move/resize status window.  A client is its geometry      *)
(* np->x, np->y, np->width, np->height.  The screen functions and the font *)
(* metrics are external: a call is given the screen GetCurrentScreen finds *)
(* for the client and the metrics of the menu font.                        *)
(***************************************************************************)
SW_INVALID == "SW_INVALID"
SW_OFF == "SW_OFF"
SW_SCREEN == "SW_SCREEN"
SW_WINDOW == "SW_WINDOW"
SW_CORNER == "SW_CORNER"

\* The mode strings of the configuration: NULL, the four known ones and an
\* unknown one.
StatusStrings == { NullType, "off", "screen", "window", "corner", "center" }
\* The clients' geometries, the screens (x, y, width, height) and the menu
\* font's metrics: the width of " 00000 x 00000 " and the string height.
StClients == [x : 0 .. MaxPos, y : 0 .. MaxPos, width : {2}, height : {2}]
StScreens == { [x |-> 0, y |-> 0, width |-> 8, height |-> 8],
               [x |-> 8, y |-> 0, width |-> 8, height |-> 6] }
StFonts == { [width |-> 4, height |-> 0] }

\* ParseType(str)
ParseType(str) ==
  IF str = NullType THEN SW_SCREEN
  ELSE IF str = "off" THEN SW_OFF
  ELSE IF str = "screen" THEN SW_SCREEN
  ELSE IF str = "window" THEN SW_WINDOW
  ELSE IF str = "corner" THEN SW_CORNER
  ELSE SW_INVALID

\* The mode stored without the test for SW_INVALID.
StoredType_Unchecked(type) == type

\* The mode SetMoveStatusType and SetResizeStatusType store for a parse.
StoredType(type) == IF type = SW_INVALID THEN SW_SCREEN ELSE type

NoStOp == [op |-> "none", str |-> NullType, np |-> [x |-> 0, y |-> 0,
           width |-> 0, height |-> 0], want |-> <<0, 0>>, calls |-> << >>]

SetMoveStatusType(str) ==
  /\ stActive = "none"
  /\ moveStatusType' = StoredType(ParseType(str))
  /\ stOp' = [NoStOp EXCEPT !.op = "SetMoveStatusType", !.str = str,
                !.calls = IF ParseType(str) = SW_INVALID
                          THEN << <<"Warning", "invalid MoveMode coordinates">> >>
                          ELSE << >>]
  /\ UNCHANGED <<statusWindow, statusWindowHeight, statusWindowWidth,
                 statusWindowX, statusWindowY, resizeStatusType, stActive,
                 stPlace, notSt>>

SetResizeStatusType(str) ==
  /\ stActive = "none"
  /\ resizeStatusType' = StoredType(ParseType(str))
  /\ stOp' = [NoStOp EXCEPT !.op = "SetResizeStatusType", !.str = str,
                !.calls = IF ParseType(str) = SW_INVALID
                          THEN << <<"Warning",
                                    "invalid ResizeMode coordinates">> >>
                          ELSE << >>]
  /\ UNCHANGED <<statusWindow, statusWindowHeight, statusWindowWidth,
                 statusWindowX, statusWindowY, moveStatusType, stActive,
                 stPlace, notSt>>

\* GetMoveResizeCoordinates(np, type, &x, &y) with the status window's
\* size and the screen of the client: <<x, y>>.
GetMoveResizeCoordinates(np, type, width, height, screen) ==
  IF type = SW_WINDOW
  THEN << np.x + (np.width \div 2) - (width \div 2),
          np.y + (np.height \div 2) - (height \div 2) >>
  ELSE IF type = SW_CORNER
  THEN << screen.x, screen.y >>
  ELSE << screen.x + (screen.width \div 2) - (width \div 2),
          screen.y + (screen.height \div 2) - (height \div 2) >>

\* CreateMoveResizeWindow(np, type) for the operation kind.
CreateMoveResizeWindow(kind, np, type, font, screen) ==
  /\ stActive = "none"
  /\ stActive' = kind
  /\ IF type = SW_OFF
     THEN /\ stOp' = [NoStOp EXCEPT !.op = "CreateMoveResizeWindow", !.np = np]
          /\ UNCHANGED <<statusWindow, statusWindowHeight, statusWindowWidth,
                         statusWindowX, statusWindowY, stPlace>>
     ELSE \E at \in { GetMoveResizeCoordinates(np, type, font.width,
                                                font.height + 8, screen) } :
            /\ statusWindowHeight' = font.height + 8
            /\ statusWindowWidth' = font.width
            /\ statusWindowX' = at[1]
            /\ statusWindowY' = at[2]
            /\ statusWindow' = 1
            /\ stPlace' = at
            /\ stOp' = [NoStOp EXCEPT !.op = "CreateMoveResizeWindow",
                          !.np = np, !.want = at,
                          !.calls = << <<"JXCreateWindow", at>> >>]
  /\ UNCHANGED <<moveStatusType, resizeStatusType, notSt>>

CreateMoveWindow(np, font, screen) ==
  CreateMoveResizeWindow("move", np, moveStatusType, font, screen)

CreateResizeWindow(np, font, screen) ==
  CreateMoveResizeWindow("resize", np, resizeStatusType, font, screen)

\* Whether DrawMoveResizeWindow moves the window to at: the test of the if.
DrawMoves(at) == at[1] # statusWindowX \/ at[2] # statusWindowX

\* DrawMoveResizeWindow(np, type) within UpdateMoveWindow and
\* UpdateResizeWindow, which do nothing when the mode is off.
UpdateMoveResizeWindow(kind, np, type, screen) ==
  /\ stActive = kind
  /\ IF type = SW_OFF
     THEN /\ stOp' = [NoStOp EXCEPT !.op = "UpdateMoveResizeWindow", !.np = np]
          /\ UNCHANGED <<statusWindowX, statusWindowY, stPlace>>
     ELSE \E at \in { GetMoveResizeCoordinates(np, type, statusWindowWidth,
                                                statusWindowHeight, screen) } :
            /\ stOp' = [NoStOp EXCEPT !.op = "UpdateMoveResizeWindow",
                          !.np = np, !.want = at,
                          !.calls = IF DrawMoves(at)
                                    THEN << <<"JXMoveResizeWindow", at>> >>
                                    ELSE << >>]
            /\ IF DrawMoves(at)
               THEN /\ statusWindowX' = at[1]
                    /\ statusWindowY' = at[2]
                    /\ stPlace' = at
               ELSE UNCHANGED <<statusWindowX, statusWindowY, stPlace>>
  /\ UNCHANGED <<statusWindow, statusWindowHeight, statusWindowWidth,
                 moveStatusType, resizeStatusType, stActive, notSt>>

UpdateMoveWindow(np, screen) ==
  UpdateMoveResizeWindow("move", np, moveStatusType, screen)

UpdateResizeWindow(np, screen) ==
  UpdateMoveResizeWindow("resize", np, resizeStatusType, screen)

\* DestroyMoveWindow() and DestroyResizeWindow()
DestroyMoveResizeWindow ==
  /\ stActive # "none"
  /\ stActive' = "none"
  /\ statusWindow' = None
  /\ stOp' = [NoStOp EXCEPT !.op = "DestroyMoveResizeWindow",
                !.calls = IF statusWindow # None
                          THEN << <<"JXDestroyWindow", stPlace>> >>
                          ELSE << >>]
  /\ UNCHANGED <<statusWindowHeight, statusWindowWidth, statusWindowX,
                 statusWindowY, moveStatusType, resizeStatusType, stPlace,
                 notSt>>

\* The statics of status.c at program start.
StInit ==
  /\ statusWindow = None
  /\ statusWindowHeight = 0
  /\ statusWindowWidth = 0
  /\ statusWindowX = 0
  /\ statusWindowY = 0
  /\ moveStatusType = SW_INVALID
  /\ resizeStatusType = SW_INVALID
  /\ stActive = "none"
  /\ stPlace = <<0, 0>>
  /\ stOp = NoStOp

StNext ==
  \/ \E str \in StatusStrings : SetMoveStatusType(str)
  \/ \E str \in StatusStrings : SetResizeStatusType(str)
  \/ \E np \in StClients, font \in StFonts, screen \in StScreens :
       CreateMoveWindow(np, font, screen)
  \/ \E np \in StClients, font \in StFonts, screen \in StScreens :
       CreateResizeWindow(np, font, screen)
  \/ \E np \in StClients, screen \in StScreens : UpdateMoveWindow(np, screen)
  \/ \E np \in StClients, screen \in StScreens : UpdateResizeWindow(np, screen)
  \/ DestroyMoveResizeWindow

(***************************************************************************)
(* Properties of the background list.                                      *)
(***************************************************************************)
BgAll == 1 .. Len(bgNodes)
BgFor(d) == { i \in BgAll : bgNodes[i].desktop = d }
BgLoaded == bgOp.op = "LoadBackground"
BgCallsNamed(name) == SelectSeq(bgCalls, LAMBDA c : c[1] = name)
\* The attributes JXChangeWindowAttributes is given for node i.
BgAttrsOf(i) ==
  IF bgNodes[i].type = BACKGROUND_SOLID
  THEN [background_pixmap |-> None, background_pixel |-> bgNodes[i].pixel]
  ELSE [background_pixmap |-> bgNodes[i].pixmap]
BgSame(i, j) ==
  bgNodes[i].type = bgNodes[j].type /\ bgNodes[i].value = bgNodes[j].value

\* SetBackground was called with a value and a type string that is none of
\* the four known ones.
BgUnrecognized ==
  /\ bgOp.op = "SetBackground"
  /\ bgOp.value # NullStr
  /\ bgOp.type \notin { NullType, "solid", "gradient", "command", "image" }
BgWarned == \E k \in 1 .. Len(bgCalls) : bgCalls[k][1] = "Warning"

\* C17 as stated: SetBackground with an unrecognized type string logs a
\* warning and registers the descriptor as a solid background with the
\* given value.
C17_Original ==
  BgUnrecognized =>
    /\ BgWarned
    /\ Len(bgNodes) = bgOp.count + 1
    /\ backgrounds = Len(bgNodes)
    /\ bgNodes[backgrounds].type = BACKGROUND_SOLID
    /\ bgNodes[backgrounds].value = bgOp.value
    /\ bgNodes[backgrounds].desktop = bgOp.desktop

\* C17: SetBackground with an unrecognized type string logs a warning and
\* registers no descriptor: the list of descriptors is as it was.
C17_WarnsAndSkips ==
  BgUnrecognized =>
    /\ BgWarned
    /\ Len(bgNodes) = bgOp.count
    /\ backgrounds = bgOp.head

\* An unrecognized type string was given after a descriptor had been
\* registered.
C17_Witness ==
  /\ BgUnrecognized
  /\ bgOp.head # NULL
  /\ bgOp.count >= 1

\* The pixmaps ShutdownBackgrounds has passed to JXFreePixmap, in the order
\* of the calls, and the pixmaps the descriptors hold.
BgFreed == [k \in 1 .. Len(BgCallsNamed("JXFreePixmap")) |->
              BgCallsNamed("JXFreePixmap")[k][2]]
BgHeld == { bgNodes[i].pixmap : i \in { j \in BgAll :
              /\ bgNodes[j].type \in { BACKGROUND_GRADIENT, BACKGROUND_IMAGE }
              /\ bgNodes[j].pixmap # None } }

\* C18: ShutdownBackgrounds frees exactly the pixmaps that were created in
\* StartupBackgrounds, each exactly once, and issues no free call for a
\* descriptor that holds no pixmap (solid, command, a gradient whose value
\* has no ':', an image that failed to load).
C18_FreesCreated ==
  bgOp.op = "ShutdownBackgrounds" =>
    /\ { BgFreed[k] : k \in 1 .. Len(BgFreed) } = BgHeld
    /\ Len(BgFreed) = Cardinality(BgHeld)
    /\ \A k \in 1 .. Len(BgFreed) : BgFreed[k] # None

\* C5: LoadBackground(d) resolves to a descriptor registered for d if there
\* is one, otherwise to the default descriptor (desktop -1) recorded at
\* startup, and does nothing when there is neither; what it applies is the
\* resolved descriptor's background.
C5_ResolveOrDefault ==
  BgLoaded =>
    /\ BgFor(bgOp.desktop) # {} => bgOp.bp \in BgFor(bgOp.desktop)
    /\ BgFor(bgOp.desktop) = {} /\ BgFor(-1) # {} =>
         bgOp.bp \in BgFor(-1) /\ bgOp.bp = defaultBackground
    /\ BgFor(bgOp.desktop) = {} /\ BgFor(-1) = {} =>
         bgOp.bp = NULL /\ bgCalls = << >>
    /\ \A k \in 1 .. Len(bgCalls) :
         /\ bgCalls[k][1] = "JXChangeWindowAttributes" =>
              bgCalls[k][2] = BgAttrsOf(bgOp.bp)
         /\ bgCalls[k][1] = "RunCommand" =>
              bgCalls[k][2] = bgNodes[bgOp.bp].value

\* An unregistered desktop was activated while another desktop and the
\* default were registered, and the default's background was applied.
C5_Witness ==
  /\ BgLoaded
  /\ bgOp.desktop = MaxDesktop + 1
  /\ BgFor(0) # {}
  /\ bgOp.bp # NULL
  /\ bgNodes[bgOp.bp].desktop = -1
  /\ Len(BgCallsNamed("JXChangeWindowAttributes")) = 1

\* C6 as stated: an activation resolving to a descriptor with the type and
\* value of the last applied one changes no attribute and clears nothing,
\* and two consecutive activations of the same desktop produce exactly one
\* JXChangeWindowAttributes call.
C6_Original ==
  BgLoaded =>
    /\ (bgOp.bp # NULL /\ bgOp.last # NULL /\ BgSame(bgOp.bp, bgOp.last)) =>
         /\ BgCallsNamed("JXChangeWindowAttributes") = << >>
         /\ BgCallsNamed("JXClearWindow") = << >>
    /\ (bgPrev.op = "LoadBackground" /\ bgPrev.desktop = bgOp.desktop) =>
         bgPrev.attrs + Len(BgCallsNamed("JXChangeWindowAttributes")) = 1

\* C6 as amended: an activation resolving to a descriptor with the type and
\* value of the last applied one changes no attribute and clears nothing;
\* of two consecutive activations of the same desktop the second produces
\* no JXChangeWindowAttributes call and the two produce at most one.
C6_AtMostOneApply ==
  BgLoaded =>
    /\ (bgOp.bp # NULL /\ bgOp.last # NULL /\ BgSame(bgOp.bp, bgOp.last)) =>
         /\ BgCallsNamed("JXChangeWindowAttributes") = << >>
         /\ BgCallsNamed("JXClearWindow") = << >>
    /\ (bgPrev.op = "LoadBackground" /\ bgPrev.desktop = bgOp.desktop) =>
         /\ BgCallsNamed("JXChangeWindowAttributes") = << >>
         /\ bgPrev.attrs <= 1

\* A desktop was activated twice in a row: the first activation changed the
\* root window's attributes and the second did nothing; and an activation
\* of another node with the same type and value was skipped.
C6_Witness ==
  /\ BgLoaded
  /\ bgPrev.op = "LoadBackground"
  /\ bgPrev.desktop = bgOp.desktop
  /\ bgPrev.attrs = 1
  /\ bgOp.bp # NULL
  /\ bgCalls = << >>

\* C7 as stated: every activation that resolves to a command descriptor
\* invokes RunCommand with the descriptor's value.
C7_Original ==
  (BgLoaded /\ bgOp.bp # NULL /\ bgNodes[bgOp.bp].type = BACKGROUND_COMMAND) =>
    bgCalls = << <<"RunCommand", bgNodes[bgOp.bp].value>> >>

\* C7 as amended: an activation that resolves to a command descriptor
\* invokes RunCommand with the descriptor's value, once, unless the last
\* applied descriptor is a command descriptor with the same value, and then
\* it invokes nothing.
C7_CommandUnlessUnchanged ==
  (BgLoaded /\ bgOp.bp # NULL /\ bgNodes[bgOp.bp].type = BACKGROUND_COMMAND) =>
    IF bgOp.last # NULL /\ BgSame(bgOp.bp, bgOp.last)
    THEN bgCalls = << >>
    ELSE bgCalls = << <<"RunCommand", bgNodes[bgOp.bp].value>> >>

\* A command descriptor was activated after another command descriptor with
\* a different value had been applied, and its command was run.
C7_Witness ==
  /\ BgLoaded
  /\ bgOp.bp # NULL /\ bgOp.last # NULL
  /\ bgNodes[bgOp.bp].type = BACKGROUND_COMMAND
  /\ bgNodes[bgOp.last].type = BACKGROUND_COMMAND
  /\ bgNodes[bgOp.bp].value # bgNodes[bgOp.last].value
  /\ bgCalls = << <<"RunCommand", bgNodes[bgOp.bp].value>> >>

\* C8: activation resolves a desktop value d (a desktop or the default -1)
\* to the most recently registered descriptor for d.  Node numbers grow in
\* registration order.
C8_LastRegisteredWins ==
  (BgLoaded /\ bgOp.bp # NULL) =>
    \A i \in BgFor(bgNodes[bgOp.bp].desktop) : i <= bgOp.bp
(***************************************************************************)
(* Properties of GetBestImage.  The overlap and the area of the claims are *)
(* written out again here, from their wording.                             *)
(***************************************************************************)
GbCalled == gbBest # NULL
GbArea(img) == img.width * img.height
\* min on the single constrained axis, the product of the per-axis mins
\* when both are constrained.
GbOverlap(img, w, h) ==
  LET mw == IF img.width <= w THEN img.width ELSE w
      mh == IF img.height <= h THEN img.height ELSE h
  IN IF w # 0 /\ h # 0 THEN mw * mh ELSE IF w # 0 THEN mw ELSE mh
\* The positions of the images of maximal overlap and, among those, of
\* minimal area.
GbTightest(images, w, h) ==
  LET n == Len(images)
      top == { i \in 1 .. n :
                 \A j \in 1 .. n :
                   GbOverlap(images[j], w, h) <= GbOverlap(images[i], w, h) }
  IN { i \in top : \A j \in top : GbArea(images[i]) <= GbArea(images[j]) }
GbFirst(S) == CHOOSE i \in S : \A j \in S : i <= j
GbPermutations(n) ==
  { q \in [1 .. n -> 1 .. n] : \A i, j \in 1 .. n : q[i] = q[j] => i = j }

\* C9: for a target that is not (0, 0), GetBestImage returns an image of
\* the list with maximal overlap, among those one of minimal area, and
\* among those the first of the list; and on every permutation of the list
\* that keeps the same image first among them it returns the same image.
C9_BestFit ==
  (GbCalled /\ (gbWidth # 0 \/ gbHeight # 0)) =>
    LET n == Len(gbImages)
        tight == GbTightest(gbImages, gbWidth, gbHeight)
    IN /\ gbBest \in 1 .. n
       /\ gbBest \in tight
       /\ \A i \in tight : gbBest <= i
       /\ \A q \in GbPermutations(n) :
            LET perm == [i \in 1 .. n |-> gbImages[q[i]]]
            IN q[GbFirst(GbTightest(perm, gbWidth, gbHeight))] = GbFirst(tight)
                 => q[GetBestImage(perm, gbWidth, gbHeight)] = gbBest

\* Two images tie in overlap and in area, a third has the same overlap and
\* a larger area, and the first of the two was returned although it is not
\* the head of the list.
C9_Witness ==
  /\ GbCalled
  /\ gbWidth # 0 /\ gbHeight # 0
  /\ Len(gbImages) = 3
  /\ gbBest = 2
  /\ GbTightest(gbImages, gbWidth, gbHeight) = {2, 3}
  /\ GbOverlap(gbImages[1], gbWidth, gbHeight)
       = GbOverlap(gbImages[2], gbWidth, gbHeight)

GbCovering(images, w, h) ==
  { i \in 1 .. Len(images) : images[i].width >= w /\ images[i].height >= h }

\* C20: for a target with both dimensions non-zero, if at least one image
\* covers the target (width >= rwidth and height >= rheight), GetBestImage
\* returns a covering image whose area is minimal among the covering ones;
\* if none covers it, it returns an image with the largest overlap area.
C20_SmallestCover ==
  (GbCalled /\ gbWidth # 0 /\ gbHeight # 0) =>
    LET covers == GbCovering(gbImages, gbWidth, gbHeight)
    IN IF covers # {}
       THEN /\ gbBest \in covers
            /\ \A j \in covers : GbArea(gbImages[gbBest]) <= GbArea(gbImages[j])
       ELSE /\ gbBest \in 1 .. Len(gbImages)
            /\ \A j \in 1 .. Len(gbImages) :
                 GbOverlap(gbImages[j], gbWidth, gbHeight)
                   <= GbOverlap(gbImages[gbBest], gbWidth, gbHeight)

\* The head of the list covers the target, a later image covers it with a
\* smaller area and was returned, and an image no larger than the returned
\* one does not cover the target.
C20_Witness ==
  /\ GbCalled
  /\ gbWidth # 0 /\ gbHeight # 0
  /\ gbBest # 1
  /\ { 1, gbBest } \subseteq GbCovering(gbImages, gbWidth, gbHeight)
  /\ GbArea(gbImages[gbBest]) < GbArea(gbImages[1])
  /\ \E j \in 1 .. Len(gbImages) :
       /\ j \notin GbCovering(gbImages, gbWidth, gbHeight)
       /\ GbArea(gbImages[j]) <= GbArea(gbImages[gbBest])

\* C21: when no size is specified (target width and height both 0),
\* GetBestImage returns the largest image of the list, one of maximal
\* width*height.
C21_LargestUnsized ==
  (GbCalled /\ gbWidth = 0 /\ gbHeight = 0) =>
    /\ gbBest \in 1 .. Len(gbImages)
    /\ \A j \in 1 .. Len(gbImages) :
         GbArea(gbImages[j]) <= GbArea(gbImages[gbBest])

(***************************************************************************)
(* Properties of the icon cache.                                           *)
(***************************************************************************)
IconAll == 1 .. Len(iconNodes)
IconLive == { i \in IconAll : ~iconNodes[i].freed }
IconNamed == { i \in IconLive : iconNodes[i].name # NullStr }
IconLoaded == iconOp.op = "LoadNamedIcon"
IconLast == iconOp.tried[Len(iconOp.tried)]

\* C1: any two successful persisted loads of one name return the same icon
\* record, whatever icon operations happen between them, and at most one
\* live named icon record exists per name string.
C1_CacheUnique ==
  /\ \A a \in persisted, b \in persisted : a[1] = b[1] => a[2] = b[2]
  /\ \A i \in IconNamed, j \in IconNamed :
       iconNodes[i].name = iconNodes[j].name => i = j

\* C2: DestroyIcon(icon) frees the record and its images if and only if
\* the icon has no name and is not the sentinel; a named icon is freed by
\* no operation other than ShutdownIcons.
C2_FreesIffUnnamed ==
  /\ iconOp.op = "DestroyIcon" =>
       /\ iconOp.freed =
            IF iconOp.arg \in IconAll /\ iconNodes[iconOp.arg].name = NullStr
            THEN { iconOp.arg } ELSE {}
       /\ \A i \in iconOp.freed : iconNodes[i].images = << >>
  /\ iconOp.op # "ShutdownIcons" =>
       \A i \in iconOp.freed : iconNodes[i].name = NullStr

\* A named icon has been given to DestroyIcon and is still live, and an
\* unnamed icon has been freed before.
C2_Witness ==
  /\ iconOp.op = "DestroyIcon"
  /\ iconOp.arg \in IconNamed
  /\ \E j \in IconAll : iconNodes[j].freed /\ iconNodes[j].name = NullStr

\* C3 as stated: a load with save = 0 never inserts a record into the hash
\* table and always yields an unnamed icon that is not in the table.
C3_Original ==
  IconLoaded /\ iconOp.save = 0 =>
    /\ iconOp.inserted = {}
    /\ iconOp.result \in IconAll =>
         /\ iconNodes[iconOp.result].name = NullStr
         /\ iconOp.result \notin InHash(IconHeap)

\* C3: a load with save = 0 never inserts a record into the hash table.  It
\* yields the named record of the table when the file name is found there,
\* and otherwise a new unnamed icon that is in no bucket and that no client
\* holds.
C3_TransientUnlessCached ==
  IconLoaded /\ iconOp.save = 0 =>
    /\ iconOp.inserted = {}
    /\ iconOp.result \in IconAll =>
         IF IconLast[2] = "cached"
         THEN /\ iconNodes[iconOp.result].name = IconLast[1]
              /\ iconOp.result \in InHash(IconHeap)
         ELSE /\ IconLast[2] = "decoded"
              /\ iconNodes[iconOp.result].name = NullStr
              /\ iconOp.result \notin InHash(IconHeap)
              /\ iconOp.result = Len(iconNodes)
              /\ \A np \in Clients : clientIcon[np] # iconOp.result

\* A load with save = 0 of a file name that was loaded with save = 1 before
\* has returned the record of the table.
C3_Witness ==
  /\ IconLoaded
  /\ iconOp.save = 0
  /\ iconOp.result \in IconNamed
  /\ <<iconOp.name, iconOp.result>> \in persisted

\* The candidates of a bare name, prefix-major: every path of iconPaths in
\* turn and, for each, every extension in turn.
IconCandidates ==
  [k \in 1 .. (Len(iconPaths) * EXTENSION_COUNT) |->
     iconPaths[((k - 1) \div EXTENSION_COUNT) + 1] \o iconOp.name
       \o ICON_EXTENSIONS[((k - 1) % EXTENSION_COUNT) + 1]]

\* The load has tried the candidates in their order, every one before the
\* last without success; it has returned NULL after all of them failed, or
\* else the icon of the last one tried, found in the table or decoded.
IconTriedInOrder ==
  /\ Len(iconOp.tried) <= Len(IconCandidates)
  /\ \A k \in 1 .. Len(iconOp.tried) :
       /\ iconOp.tried[k][1] = IconCandidates[k]
       /\ k < Len(iconOp.tried) => iconOp.tried[k][2] = "failed"
  /\ IF iconOp.result = NULL
     THEN /\ Len(iconOp.tried) = Len(IconCandidates)
          /\ \A k \in 1 .. Len(iconOp.tried) : iconOp.tried[k][2] = "failed"
     ELSE /\ iconOp.result \in IconLive
          /\ Len(iconOp.tried) >= 1
          /\ IconLast[2] \in { "cached", "decoded" }
          /\ iconNodes[iconOp.result].images = DecodedImages(IconLast[1])
          /\ iconOp.save # 0 \/ IconLast[2] = "cached" =>
               iconNodes[iconOp.result].name = IconLast[1]

\* C4 as stated: for every name without a leading '/', LoadNamedIcon tries
\* the candidates in prefix-major order, returns the icon of the first that
\* is cached or decodes, tries none after it, and returns NULL when none
\* succeeds.
C4_Original ==
  IconLoaded /\ (iconOp.name = << >> \/ iconOp.name[1] # "/") =>
    IconTriedInOrder

\* C4: the same for every non-empty name without a leading '/', the paths
\* being in the order AddIconPath was given them; for the empty name
\* LoadNamedIcon tries no candidate and returns the sentinel.
C4_PrefixMajor ==
  /\ IconLoaded /\ iconOp.name # << >> /\ iconOp.name[1] # "/" =>
       IconTriedInOrder
  /\ IconLoaded /\ iconOp.name = << >> =>
       iconOp.result = emptyIcon /\ iconOp.tried = << >>
  /\ iconOp.op = "AddIconPath" /\ iconOp.name # NullStr =>
       /\ Len(iconPaths) >= 1
       /\ iconPaths[Len(iconPaths)] \in { iconOp.name, Append(iconOp.name, "/") }
       /\ iconPaths[Len(iconPaths)][Len(iconPaths[Len(iconPaths)])] = "/"

\* With two different paths registered, a bare name has been found under
\* the second path with a non-empty extension, after every candidate of
\* the first path and the bare file name under the second had failed.
C4_Witness ==
  /\ IconLoaded
  /\ iconOp.name # << >> /\ iconOp.name[1] # "/"
  /\ Len(iconPaths) = 2 /\ iconPaths[1] # iconPaths[2]
  /\ iconOp.result \in IconLive
  /\ Len(iconOp.tried) = EXTENSION_COUNT + 2

\* What each source of LoadIcon has to give, told from the window's property
\* and hints and from the files tried, not from the path LoadIcon took.
IconClientLoaded == iconOp.op = "LoadIcon"
IconNetImages ==
  IF iconOp.net = NoProperty THEN << >>
  ELSE BinaryLoop(iconOp.net, Len(iconOp.net), 0, 0, NoParse).images
IconNetYields == IconNetImages # << >>
IconHintYields == iconOp.hint = "pixmap"
IconNameYields ==
  /\ iconOp.name # NullStr
  /\ \/ iconOp.name = << >>
     \/ /\ iconOp.tried # << >>
        /\ IconLast[2] \in { "cached", "decoded" }

\* C16: LoadIcon passes the client's previous icon to DestroyIcon and then
\* consults the _NET_WM_ICON property, the WM hints, the instance name and
\* the built-in default in this order; the client's icon is the result of
\* the first source that yields an icon, and no later source is consulted
\* after it (no file is tried, no second icon is made or inserted).
C16_SourceOrder ==
  IconClientLoaded =>
    /\ clientIcon[iconOp.client] = iconOp.result
    /\ iconOp.freed =
         IF iconOp.arg \in IconAll /\ iconNodes[iconOp.arg].name = NullStr
         THEN { iconOp.arg } ELSE {}
    /\ iconOp.result \notin iconOp.freed
    /\ IF IconNetYields
       THEN /\ iconOp.result \in IconLive \ IconNamed
            /\ iconNodes[iconOp.result].images = IconNetImages
            /\ iconOp.tried = << >>
            /\ iconOp.made = 1 /\ iconOp.inserted = {}
       ELSE IF IconHintYields
       THEN /\ iconOp.result \in IconLive \ IconNamed
            /\ iconNodes[iconOp.result].images = DrawableImages
            /\ iconOp.tried = << >>
            /\ iconOp.made = 1 /\ iconOp.inserted = {}
       ELSE IF IconNameYields
       THEN /\ iconOp.name = << >> => iconOp.result = emptyIcon
            /\ iconOp.name # << >> =>
                 /\ iconOp.result \in IconNamed
                 /\ iconNodes[iconOp.result].name = IconLast[1]
                 /\ IconLast[1] = iconOp.name
            /\ iconOp.made <= 1 /\ iconOp.inserted \subseteq { iconOp.result }
       ELSE /\ iconOp.name # NullStr => Len(iconOp.tried) = 1
            /\ iconOp.name = NullStr => iconOp.tried = << >>
            /\ \/ iconOp.result = NULL /\ iconOp.made = 0
               \/ /\ iconOp.result \in IconNamed
                  /\ iconNodes[iconOp.result].name = DefaultName
                  /\ iconNodes[iconOp.result].images = DefaultImages

\* A window whose property holds no raster and whose hints cannot be read
\* has got the icon of its instance name, and its previous icon, an unnamed
\* one, has been freed.
C16_Witness ==
  /\ IconClientLoaded
  /\ iconOp.net # NoProperty /\ ~IconNetYields
  /\ iconOp.hint = "unreadable"
  /\ IconNameYields /\ iconOp.name # << >>
  /\ iconOp.freed = { iconOp.arg }
  /\ iconOp.result \in IconNamed

\* C22: when ShutdownIcons returns, every hash bucket is empty and every
\* named icon record created since InitializeIcons has been freed, once,
\* with its images and their renderings: no named icon is leaked, whatever
\* loads and DestroyIcon calls came before.
C22_ShutdownFreesNamed ==
  iconOp.op = "ShutdownIcons" =>
    /\ \A x \in 0 .. (HASH_SIZE - 1) : iconHash[x] = NULL
    /\ \A i \in IconAll :
         iconNodes[i].name # NullStr =>
           /\ iconNodes[i].freed
           /\ iconNodes[i].images = << >>
           /\ i \in iconOp.freed

\* C24: DestroyIcon applied to an unnamed icon leaves the hash table as it
\* was: no named icon has left its bucket, so every name FindIcon found
\* before the call it finds after it.
C24_TransientFrame ==
  (/\ iconOp.op = "DestroyIcon"
   /\ iconOp.arg \in IconAll
   /\ iconNodes[iconOp.arg].name = NullStr) =>
    /\ iconOp.unlinked = {}
    /\ iconOp.inserted = {}
    /\ \A i \in IconNamed :
         <<iconNodes[i].name, i>> \in persisted =>
           FindIcon(IconHeap, iconNodes[i].name) # NULL

\* The chain of bucket x, from its head along next.
IconChain(x) == ChainFrom(IconHeap, iconHash[x])

\* C25: between InitializeIcons and ShutdownIcons the hash table is well
\* formed: GetHash yields an index in [0, 128), every record of bucket b
\* is a live record with a name whose hash is b, the head of each chain
\* has prev = NULL, r.next.prev = r for every record r with a next, and
\* unnamed icons are in no bucket.
C25_WellFormedHash ==
  iconPhase \in { "config", "running" } =>
    /\ \A str \in HashedStrings : GetHash(str) \in 0 .. (HASH_SIZE - 1)
    /\ \A b \in 0 .. (HASH_SIZE - 1) :
         /\ iconHash[b] # NULL => iconNodes[iconHash[b]].prev = NULL
         /\ \A k \in 1 .. Len(IconChain(b)) :
              LET r == IconChain(b)[k]
              IN /\ r \in IconLive
                 /\ iconNodes[r].name # NullStr
                 /\ GetHash(iconNodes[r].name) = b
                 /\ iconNodes[r].next # NULL =>
                      iconNodes[iconNodes[r].next].prev = r

\* A bucket holds a chain of two records.
C25_Witness ==
  /\ iconPhase = "running"
  /\ \E b \in 0 .. (HASH_SIZE - 1) : Len(IconChain(b)) >= 2

\* C28: every icon a loader hands out (LoadNamedIcon and, through it,
\* CreateIconFromFile; LoadIcon and, through it, CreateIconFromBinary,
\* CreateIconFromDrawable and CreateIconFromData) is the emptyIcon sentinel
\* or an icon with at least one image, and so is every icon that is live
\* while the icons are in use: PutIcon never calls GetBestImage or
\* GetScaledIcon on an icon without images.
C28_HandedOutHasImage ==
  /\ iconOp.op \in { "LoadNamedIcon", "LoadIcon" } /\ iconOp.result # NULL =>
       \/ iconOp.result = emptyIcon
       \/ /\ iconOp.result \in IconLive
          /\ iconNodes[iconOp.result].images # << >>
  /\ iconPhase = "running" =>
       /\ \A i \in IconLive : iconNodes[i].images # << >>
       /\ \A np \in Clients :
            clientIcon[np] \in { NULL, emptyIcon } \cup IconLive

\* The window's property held an entry of size 0x0, which gives no icon,
\* and with no hints and no instance name LoadIcon has handed out the
\* default icon with its image.
C28_Witness ==
  /\ IconClientLoaded
  /\ iconOp.net # NoProperty /\ ~IconNetYields
  /\ iconOp.hint = "none"
  /\ iconOp.name = NullStr
  /\ iconOp.result \in IconLive
  /\ iconNodes[iconOp.result].images = DefaultImages

(***************************************************************************)
(* Properties of the size GetScaledIcon computes.                          *)
(***************************************************************************)
SzCalled == szSize # << >>

\* C11: with aspect preservation on, a request at the image's own size
\* (W, H) computes the rendering size (W, H).
C11_NativeSize ==
  SzCalled /\ szAspect # 0 /\ szWidth = szImage.width
    /\ szHeight = szImage.height =>
      szSize = << szImage.width, szImage.height >>

\* C19: with aspect preservation on and a requested box (w, h) with
\* w, h >= 1, the computed size satisfies 1 <= nwidth <= w and
\* 1 <= nheight <= h.
C19_FitsBox ==
  SzCalled /\ szAspect # 0 /\ szWidth >= 1 /\ szHeight >= 1 =>
    /\ 1 <= szSize[1] /\ szSize[1] <= szWidth
    /\ 1 <= szSize[2] /\ szSize[2] <= szHeight

\* A size has been computed with aspect preservation on that is smaller
\* than the box in both directions and owes one of them to the clamp.
C19_Witness ==
  /\ SzCalled /\ szAspect # 0 /\ szWidth >= 1 /\ szHeight >= 1
  /\ szSize[1] < szWidth /\ szSize[2] < szHeight
  /\ ScaledSize_NoClamp(szImage.width, szImage.height, szAspect, szWidth,
                        szHeight) # szSize

(***************************************************************************)
(* Properties of the renderings.                                           *)
(***************************************************************************)
RECURSIVE SiChainFrom(_)
SiChainFrom(np) ==
  IF np = NULL THEN {} ELSE { np } \cup SiChainFrom(siNodes[np].next)
SiList == SiChainFrom(siHead)
SiKeyOf(np) ==
  RenderingKey(siImage, << siNodes[np].width, siNodes[np].height >>,
               siNodes[np].fg)
SiRequested == siOp.result # NULL

\* C12: a request whose key (the computed size and, for a bitmap, the
\* foreground) is that of an earlier request returns the node the earlier
\* request returned and makes no node and no pixmap; the list never holds
\* two renderings of one key.
C12_Memoized ==
  /\ \A a \in siServed, b \in siServed : a[1] = b[1] => a[2] = b[2]
  /\ siOp.repeat => siOp.nodes = 0 /\ siOp.pixmaps = 0
  /\ \A i \in SiList, j \in SiList : SiKeyOf(i) = SiKeyOf(j) => i = j
  /\ \A p \in siServed : p[2] \in SiList

\* A key has been requested again after a request of another key, and the
\* node returned is not the one at the head of the list.
C12_Witness ==
  /\ SiRequested
  /\ siOp.repeat
  /\ siOp.result # siHead
  /\ Cardinality(SiList) >= 2

\* C13: on either backend the node returned for a bitmap carries the
\* foreground requested, and for an image that is no bitmap a node of the
\* computed size that is in the list is returned whatever the foreground.
C13_ForegroundKey ==
  SiRequested =>
    /\ siImage.bitmap => siNodes[siOp.result].fg = siOp.fg
    /\ ~siImage.bitmap /\ siOp.repeat =>
         /\ siOp.nodes = 0
         /\ siNodes[siOp.result].width = siOp.size[1]
         /\ siNodes[siOp.result].height = siOp.size[2]

(***************************************************************************)
(* Properties of CreateIconFromBinary.  The entries a property holds are   *)
(* written out again here from the wording of the claims, with the sizes   *)
(* as numbers (no product is formed that the data cannot hold).            *)
(***************************************************************************)
BiCalled == biOut.called

\* Whether an entry of width x height, header included, needs more than
\* the rem words that are left.
BiExceeds(width, height, rem) ==
  \/ rem < 2
  \/ /\ width >= 1 /\ height >= 1
     /\ (height > rem - 2 \/ width > (rem - 2) \div height)

\* The well-formed entries from offset on up to the first malformed one,
\* and the offset at which they end.
RECURSIVE BiWellFormed(_, _)
BiWellFormed(input, offset) ==
  IF offset >= Len(input) THEN [sizes |-> << >>, end |-> offset]
  ELSE IF Len(input) - offset < 2 THEN [sizes |-> << >>, end |-> offset]
  ELSE LET width == input[offset + 1]
           height == input[offset + 2]
       IN IF width = 0 \/ height = 0
             \/ BiExceeds(width, height, Len(input) - offset)
          THEN [sizes |-> << >>, end |-> offset]
          ELSE LET rest == BiWellFormed(input, offset + 2 + (width * height))
               IN [sizes |-> << <<width, height>> >> \o rest.sizes,
                   end |-> rest.end]

\* C14: CreateIconFromBinary reads only words of index below length, and
\* reads no pixel word of an entry whose width * height + 2 (in unsigned
\* 32-bit arithmetic) exceeds the words that are left.
C14_ReadsInBounds ==
  BiCalled =>
    /\ \A i \in biOut.parse.reads : i < Len(biInput)
    /\ \A k \in 1 .. Len(biOut.parse.entries) :
         LET e == biOut.parse.entries[k]
         IN Greater32(Add32(Mul32(e.width, e.height), 2),
                      Len(biInput) - e.offset) =>
              /\ e.verdict = "too large"
              /\ \A i \in biOut.parse.reads : i <= e.offset + 1

\* C15: when the property holds a malformed entry after k well-formed
\* ones, CreateIconFromBinary returns an icon with exactly those k images
\* (NULL, no image, when k = 0) and parses nothing after the malformed
\* entry.
C15_StopsAtMalformed ==
  BiCalled /\ BiWellFormed(biInput, 0).end < Len(biInput) =>
    LET sizes == BiWellFormed(biInput, 0).sizes
        images == biOut.parse.images
    IN /\ Len(images) = Len(sizes)
       /\ \A k \in 1 .. Len(sizes) :
            << images[Len(images) + 1 - k].width,
               images[Len(images) + 1 - k].height >> = sizes[k]
       /\ Len(biOut.parse.entries) = Len(sizes) + 1
       /\ ~biOut.parse.fault

(***************************************************************************)
(* Properties of the software scaling loop.                                *)
(***************************************************************************)
SlCalled == slOut # NoScaleOut

\* C26: for every native size W x H and every computed size nwidth x
\* nheight (all >= 1), each destination pixel (x, y) is mapped to a source
\* column srcx >> 16 in 0 .. W - 1 and a source row srcy >> 16 in
\* 0 .. H - 1, so the source index stays in the W*H raster; when
\* nwidth = W and nheight = H the mapping is the identity.
C26_SourceInRaster ==
  SlCalled =>
    /\ Len(slOut.columns) = slSize.width
    /\ Len(slOut.rows) = slSize.height
    /\ \A x \in 1 .. slSize.width :
         slOut.columns[x] \in 0 .. (slImage.width - 1)
    /\ \A y \in 1 .. slSize.height :
         slOut.rows[y] \in 0 .. (slImage.height - 1)
    /\ slSize = slImage =>
         /\ \A x \in 1 .. slSize.width : slOut.columns[x] = x - 1
         /\ \A y \in 1 .. slSize.height : slOut.rows[y] = y - 1

(***************************************************************************)
(* Properties of the status window.                                        *)
(***************************************************************************)
StKnown == { "off", "screen", "window", "corner" }
\* The mode a known string names.
StNamed(str) ==
  CASE str = "off" -> SW_OFF
    [] str = "screen" -> SW_SCREEN
    [] str = "window" -> SW_WINDOW
    [] str = "corner" -> SW_CORNER
StWarned == \E k \in 1 .. Len(stOp.calls) : stOp.calls[k][1] = "Warning"
\* The mode the last Set call was to set.
StSet ==
  IF stOp.op = "SetMoveStatusType" THEN moveStatusType ELSE resizeStatusType
\* The mode of the operation in progress.
StMode == IF stActive = "move" THEN moveStatusType ELSE resizeStatusType

\* C23: SetMoveStatusType and SetResizeStatusType given a string other than
\* "off", "screen", "window" or "corner" set their mode to SW_SCREEN and
\* log a warning; a NULL string also gives SW_SCREEN; a known string gives
\* its mode; the stored mode is never SW_INVALID after a Set call.
C23_ScreenFallback ==
  stOp.op \in { "SetMoveStatusType", "SetResizeStatusType" } =>
    /\ StSet # SW_INVALID
    /\ stOp.str = NullType => StSet = SW_SCREEN
    /\ stOp.str \in StKnown => StSet = StNamed(stOp.str) /\ ~StWarned
    /\ stOp.str \notin StKnown \cup { NullType } =>
         StSet = SW_SCREEN /\ StWarned

\* The resize mode was set with an unknown string after it had been set to
\* another mode than SW_SCREEN, which the move mode still has.
C23_Witness ==
  /\ stOp.op = "SetResizeStatusType"
  /\ stOp.str \notin StKnown \cup { NullType }
  /\ resizeStatusType = SW_SCREEN
  /\ moveStatusType = SW_CORNER

\* C27: after every UpdateMoveWindow / UpdateResizeWindow call with the
\* mode not off, the recorded position (statusWindowX, statusWindowY) and
\* the position of the status window are the coordinates
\* GetMoveResizeCoordinates computes for the client's geometry.
C27_OverlayFollows ==
  (stOp.op = "UpdateMoveResizeWindow" /\ StMode # SW_OFF) =>
    /\ <<statusWindowX, statusWindowY>> = stOp.want
    /\ stPlace = stOp.want

(***************************************************************************)
(* Specifications.                                                         *)
(***************************************************************************)
GbIdle ==
  /\ gbImages = << >>
  /\ gbWidth = 0
  /\ gbHeight = 0
  /\ gbBest = NULL

SzIdle ==
  /\ szImage = [width |-> 1, height |-> 1]
  /\ szAspect = 1
  /\ szWidth = 0
  /\ szHeight = 0
  /\ szSize = << >>

SiIdle ==
  /\ siImage = [width |-> 1, height |-> 1, bitmap |-> FALSE]
  /\ siAspect = 1
  /\ siRender = FALSE
  /\ siNodes = << >>
  /\ siHead = NULL
  /\ siPixmaps = 0
  /\ siOp = NoScaledOp
  /\ siServed = {}

BiIdle ==
  /\ biInput = << >>
  /\ biOut = NoBinaryOp

SlIdle ==
  /\ slImage = [width |-> 1, height |-> 1]
  /\ slSize = [width |-> 1, height |-> 1]
  /\ slOut = NoScaleOut

IconIdle ==
  /\ iconPhase = "destroyed"
  /\ iconNodes = << >>
  /\ iconHash = << >>
  /\ iconPaths = << >>
  /\ clientIcon = << >>
  /\ iconOp = NoIconOp
  /\ persisted = {}

vars == <<bgVars, gbVars, iconVars, szVars, siVars, biVars, stVars, slVars>>

\* The background manager.
InitBg ==
  BgInit /\ GbIdle /\ IconIdle /\ SzIdle /\ SiIdle /\ BiIdle /\ StInit /\ SlIdle
SpecBg == InitBg /\ [][BgNext]_vars

\* GetBestImage on every image list and target size within the bounds.
InitBest ==
  GbInit /\ BgIdle /\ IconIdle /\ SzIdle /\ SiIdle /\ BiIdle /\ StInit /\ SlIdle
SpecBest == InitBest /\ [][GbNext]_vars

\* The icon cache, from InitializeIcons to DestroyIcons: the icons of the
\* clients and of the callers, and the search along the icon paths.
InitIcon ==
  IconInit /\ BgIdle /\ GbIdle /\ SzIdle /\ SiIdle /\ BiIdle /\ StInit /\ SlIdle
SpecIcon == InitIcon /\ [][IconNext]_vars
SpecSearch == InitIcon /\ [][SearchNext]_vars
SpecClient == InitIcon /\ [][ClientNext]_vars

\* The size GetScaledIcon computes, for every image size and request within
\* the bounds.
InitSize ==
  SzInit /\ BgIdle /\ GbIdle /\ IconIdle /\ SiIdle /\ BiIdle /\ StInit /\ SlIdle
SpecSize == InitSize /\ [][SzNext]_vars

\* The renderings of one image under a sequence of GetScaledIcon requests,
\* on either backend.
InitScaled ==
  SiInit /\ BgIdle /\ GbIdle /\ IconIdle /\ SzIdle /\ BiIdle /\ StInit /\ SlIdle
SpecScaled == InitScaled /\ [][SiNext]_vars

\* The status window under every sequence of mode settings and of moves
\* and resizes within the bounds.
InitStatus ==
  StInit /\ BgIdle /\ GbIdle /\ IconIdle /\ SzIdle /\ SiIdle /\ BiIdle
    /\ SlIdle

\* The software scaling loop on every image size and rendering size within
\* the bounds.
InitLoop ==
  SlInit /\ BgIdle /\ GbIdle /\ IconIdle /\ SzIdle /\ SiIdle /\ BiIdle
    /\ StInit
SpecLoop == InitLoop /\ [][SlNext]_vars
SpecStatus == InitStatus /\ [][StNext]_vars

\* CreateIconFromBinary on every property within the bounds.
InitBinary ==
  BiInit /\ BgIdle /\ GbIdle /\ IconIdle /\ SzIdle /\ SiIdle /\ StInit /\ SlIdle
SpecBinary == InitBinary /\ [][BiNext]_vars
====
